---- MODULE Spec2Model ----
(***************************************************************************)
(* Model of the business-codes library: the ApiResponse envelope and its   *)
(* factories, the NestJS ApiExceptionFilter, the business-code range       *)
(* predicates and the BusinessMessageProvider (localized messages).        *)
(*                                                                         *)
(* An optional JavaScript value is a sequence: <<>> is undefined, <<v>> is *)
(* the value v.  An object with string keys is a function whose DOMAIN is  *)
(* the set of its own keys.                                                *)
(***************************************************************************)
EXTENDS Integers, Sequences, FiniteSets, TLC

VARIABLES pc, op, args, out, events, json, locale, fallbackLocale, customMessages, history,
          callerMaps, stored

vars == <<pc, op, args, out, events, json, locale, fallbackLocale, customMessages, history,
          callerMaps, stored>>

respVars == <<pc, op, args, out, events, json>>

i18nVars == <<locale, fallbackLocale, customMessages, history, callerMaps, stored>>

----------------------------------------------------------------------------
(* Optional values and object spread                                       *)

None == <<>>

Some(v) == <<v>>

\* x ?? d
Nullish(x, d) == IF x = None THEN d ELSE x[1]

\* { ...a, ...b }
Spread(a, b) == [k \in (DOMAIN a) \cup (DOMAIN b) |-> IF k \in DOMAIN b THEN b[k] ELSE a[k]]

\* Math.ceil(a / b) for integers a and b > 0
Ceil(a, b) == -((-a) \div b)

----------------------------------------------------------------------------
(* Constants of http-status.ts and business-codes.ts                       *)

HttpStatus_OK == 200

HttpStatus_CREATED == 201

HttpStatus_ACCEPTED == 202

HttpStatus_NO_CONTENT == 204

HttpStatus_BAD_REQUEST == 400

HttpStatus_UNAUTHORIZED == 401

HttpStatus_FORBIDDEN == 403

HttpStatus_NOT_FOUND == 404

HttpStatus_CONFLICT == 409

HttpStatus_UNPROCESSABLE_ENTITY == 422

HttpStatus_TOO_MANY_REQUESTS == 429

HttpStatus_INTERNAL_SERVER_ERROR == 500

HttpStatus_SERVICE_UNAVAILABLE == 503

BusinessCode_SUCCESS == 0

BusinessCode_AUTH_FAILED == 1001

BusinessCode_TOKEN_EXPIRED == 1002

BusinessCode_PERMISSION_DENIED == 1007

BusinessCode_USER_NOT_FOUND == 2001

BusinessCode_VALIDATION_ERROR == 3001

BusinessCode_INVALID_INPUT == 3002

BusinessCode_RESOURCE_NOT_FOUND == 4001

BusinessCode_RESOURCE_CONFLICT == 4008

BusinessCode_INTERNAL_ERROR == 5001

BusinessCode_SERVICE_UNAVAILABLE == 5004

BusinessCode_RATE_LIMIT_EXCEEDED == 7015

----------------------------------------------------------------------------
(* Bounds of the inputs                                                    *)

MaxPage == 3

MaxLimit == 10

MaxTotal == 25

\* toJSON is called at most MaxSerializations times on one envelope.
MaxSerializations == 2

----------------------------------------------------------------------------
(* ApiResponse: constructor and static factories                           *)

Absent == [k \in {"success", "data", "message", "statusCode", "meta", "error"} |-> None]

\* new ApiResponse(params): every field is copied from params as it is.
ApiResponse(params) ==
  [success    |-> params.success,
   data       |-> params.data,
   message    |-> params.message,
   statusCode |-> params.statusCode,
   meta       |-> params.meta,
   error      |-> params.error]

\* ApiResponse.success(params = {})
Success(params) ==
  ApiResponse([Absent EXCEPT
    !.success    = TRUE,
    !.data       = params.data,
    !.message    = Some(Nullish(params.message, "Success")),
    !.statusCode = Some(Nullish(params.statusCode, HttpStatus_OK)),
    !.meta       = params.meta])

\* Error with success copied from the success factory (mutant for C1).
ErrorMarkedSuccess(params) ==
  ApiResponse([Absent EXCEPT
    !.success    = TRUE,
    !.message    = Some(Nullish(params.message, "Error")),
    !.statusCode = Some(Nullish(params.statusCode, HttpStatus_INTERNAL_SERVER_ERROR)),
    !.error      = Some([code    |-> Some(Nullish(params.code, BusinessCode_INTERNAL_ERROR)),
                         details |-> params.details])])

\* Error with params.code || INTERNAL_ERROR in place of ?? (mutant for C2).
ErrorFalsyCode(params) ==
  ApiResponse([Absent EXCEPT
    !.success    = FALSE,
    !.message    = Some(Nullish(params.message, "Error")),
    !.statusCode = Some(Nullish(params.statusCode, HttpStatus_INTERNAL_SERVER_ERROR)),
    !.error      = Some([code    |-> IF params.code = None \/ params.code = Some(0)
                                     THEN Some(BusinessCode_INTERNAL_ERROR)
                                     ELSE params.code,
                         details |-> params.details])])

\* ApiResponse.error(params = {})
Error(params) ==
  ApiResponse([Absent EXCEPT
    !.success    = FALSE,
    !.message    = Some(Nullish(params.message, "Error")),
    !.statusCode = Some(Nullish(params.statusCode, HttpStatus_INTERNAL_SERVER_ERROR)),
    !.error      = Some([code    |-> Some(Nullish(params.code, BusinessCode_INTERNAL_ERROR)),
                         details |-> params.details])])

\* The six fields paginated computes from (page, limit, total).
ComputedMeta(pg, lim, tot) ==
  [page            |-> pg,
   limit           |-> lim,
   total           |-> tot,
   totalPages      |-> Ceil(tot, lim),
   hasNextPage     |-> pg < Ceil(tot, lim),
   hasPreviousPage |-> pg > 1]

\* The meta object literal of paginated: the computed fields, then ...params.meta.
PaginatedMeta(params) ==
  Spread(ComputedMeta(params.page, params.limit, params.total),
         Nullish(params.meta, <<>>))

\* ApiResponse.paginated(params)
Paginated(params) ==
  ApiResponse([Absent EXCEPT
    !.success    = TRUE,
    !.data       = Some(params.data),
    !.message    = Some(Nullish(params.message, "Success")),
    !.statusCode = Some(Nullish(params.statusCode, HttpStatus_OK)),
    !.meta       = Some(PaginatedMeta(params))])

\* The parameter objects the shorthands build.
SuccessParams(data, message, statusCode, meta) ==
  [data |-> data, message |-> message, statusCode |-> statusCode, meta |-> meta]

ErrorParams(message, code, statusCode, details) ==
  [message |-> message, code |-> code, statusCode |-> statusCode, details |-> details]

\* ApiResponse.created(data, message?)
Created(data, message) ==
  Success(SuccessParams(Some(data),
                        Some(Nullish(message, "Resource created successfully")),
                        Some(HttpStatus_CREATED), None))

\* ApiResponse.noContent(message?)
NoContent(message) ==
  ApiResponse([Absent EXCEPT
    !.success    = TRUE,
    !.message    = Some(Nullish(message, "No content")),
    !.statusCode = Some(HttpStatus_NO_CONTENT)])

\* ApiResponse.badRequest(message?, details?)
BadRequest(message, details) ==
  Error(ErrorParams(Some(Nullish(message, "Bad request")),
                    Some(BusinessCode_INVALID_INPUT),
                    Some(HttpStatus_BAD_REQUEST), details))

\* ApiResponse.unauthorized(message?, code?)
Unauthorized(message, code) ==
  Error(ErrorParams(Some(Nullish(message, "Unauthorized")),
                    Some(Nullish(code, BusinessCode_AUTH_FAILED)),
                    Some(HttpStatus_UNAUTHORIZED), None))

\* forbidden with the pair of unauthorized (mutant for C10).
ForbiddenAsUnauthorized(message) ==
  ApiResponse([Absent EXCEPT
    !.success    = FALSE,
    !.message    = Some(Nullish(message, "Forbidden")),
    !.statusCode = Some(HttpStatus_UNAUTHORIZED),
    !.error      = Some([code |-> Some(BusinessCode_AUTH_FAILED), details |-> None])])

\* ApiResponse.forbidden(message?)
Forbidden(message) ==
  Error(ErrorParams(Some(Nullish(message, "Forbidden")),
                    Some(BusinessCode_PERMISSION_DENIED),
                    Some(HttpStatus_FORBIDDEN), None))

\* ApiResponse.notFound(message?, code?)
NotFound(message, code) ==
  Error(ErrorParams(Some(Nullish(message, "Not found")),
                    Some(Nullish(code, BusinessCode_RESOURCE_NOT_FOUND)),
                    Some(HttpStatus_NOT_FOUND), None))

\* ApiResponse.conflict(message?, code?)
Conflict(message, code) ==
  Error(ErrorParams(Some(Nullish(message, "Conflict")),
                    Some(Nullish(code, BusinessCode_RESOURCE_CONFLICT)),
                    Some(HttpStatus_CONFLICT), None))

\* ApiResponse.validationError(details, message?)
ValidationError(details, message) ==
  Error(ErrorParams(Some(Nullish(message, "Validation failed")),
                    Some(BusinessCode_VALIDATION_ERROR),
                    Some(HttpStatus_UNPROCESSABLE_ENTITY), details))

\* ApiResponse.tooManyRequests(message?)
TooManyRequests(message) ==
  Error(ErrorParams(Some(Nullish(message, "Too many requests")),
                    Some(BusinessCode_RATE_LIMIT_EXCEEDED),
                    Some(HttpStatus_TOO_MANY_REQUESTS), None))

\* ApiResponse.internalError(message?)
InternalError(message) ==
  Error(ErrorParams(Some(Nullish(message, "Internal server error")),
                    Some(BusinessCode_INTERNAL_ERROR),
                    Some(HttpStatus_INTERNAL_SERVER_ERROR), None))

\* toJSON with every field emitted, null standing in for an absent one
\* (mutant for C11).
toJSONWithPlaceholders(this) ==
  [k \in {"success", "data", "message", "statusCode", "meta", "error"} |->
     IF k = "success" THEN this.success
     ELSE IF this[k] = None THEN "null" ELSE this[k][1]]

\* ApiResponse.toJSON(): success, then each other field that is !== undefined.
toJSON(this) ==
  [k \in {"success"} \cup
         {f \in {"data", "message", "statusCode", "meta", "error"} : this[f] # None} |->
     IF k = "success" THEN this.success ELSE this[k][1]]

----------------------------------------------------------------------------
(* Exceptions and the NestJS ApiExceptionFilter                            *)

\* The businessCodeMessages table of business-codes.ts.
businessCodeMessages ==
  (0 :> "Operation completed successfully") @@
  (1 :> "Resource created successfully") @@
  (2 :> "Resource updated successfully") @@
  (3 :> "Resource deleted successfully") @@
  (4 :> "Operation accepted for processing") @@
  (5 :> "No changes were made") @@
  (1001 :> "Authentication failed") @@
  (1002 :> "Access token has expired") @@
  (1003 :> "Access token is invalid") @@
  (1004 :> "Access token is missing") @@
  (1005 :> "Refresh token has expired") @@
  (1006 :> "Refresh token is invalid") @@
  (1007 :> "Insufficient permissions") @@
  (1008 :> "Account is locked") @@
  (1009 :> "Account is not verified") @@
  (1010 :> "Session has expired") @@
  (1011 :> "Invalid API key") @@
  (1012 :> "Too many authentication attempts") @@
  (1013 :> "Two-factor authentication required") @@
  (1014 :> "Two-factor authentication failed") @@
  (1015 :> "OAuth authentication failed") @@
  (1016 :> "OAuth provider error") @@
  (2001 :> "User not found") @@
  (2002 :> "User already exists") @@
  (2003 :> "User account is inactive") @@
  (2004 :> "Invalid credentials") @@
  (2005 :> "User account is suspended") @@
  (2006 :> "User account is deleted") @@
  (2007 :> "Email already in use") @@
  (2008 :> "Username already in use") @@
  (2009 :> "Phone number already in use") @@
  (2010 :> "Invalid email format") @@
  (2011 :> "Password is too weak") @@
  (2012 :> "Passwords do not match") @@
  (2013 :> "Old password is incorrect") @@
  (2014 :> "Profile is incomplete") @@
  (3001 :> "Validation error") @@
  (3002 :> "Invalid input") @@
  (3003 :> "Required field is missing") @@
  (3004 :> "Value is out of range") @@
  (3005 :> "Invalid format") @@
  (3006 :> "Field is too long") @@
  (3007 :> "Field is too short") @@
  (3008 :> "Invalid date format") @@
  (3009 :> "Date cannot be in the past") @@
  (3010 :> "Date cannot be in the future") @@
  (3011 :> "Invalid file type") @@
  (3012 :> "File size is too large") @@
  (3013 :> "Invalid JSON format") @@
  (3014 :> "Invalid UUID format") @@
  (3015 :> "Invalid phone number format") @@
  (3016 :> "Duplicate entry") @@
  (4001 :> "Resource not found") @@
  (4002 :> "Resource already exists") @@
  (4003 :> "Resource is locked") @@
  (4004 :> "Resource has been deleted") @@
  (4005 :> "Resource has expired") @@
  (4006 :> "Resource limit reached") @@
  (4007 :> "Resource is not available") @@
  (4008 :> "Resource conflict") @@
  (4009 :> "Version mismatch") @@
  (4010 :> "Cannot delete resource with dependencies") @@
  (5001 :> "Internal server error") @@
  (5002 :> "Database error") @@
  (5003 :> "External service error") @@
  (5004 :> "Service temporarily unavailable") @@
  (5005 :> "Configuration error") @@
  (5006 :> "Cache error") @@
  (5007 :> "File system error") @@
  (5008 :> "Memory limit exceeded") @@
  (5009 :> "Operation timed out") @@
  (5010 :> "Queue error") @@
  (6001 :> "Third-party API error") @@
  (6002 :> "Payment gateway error") @@
  (6003 :> "Email service error") @@
  (6004 :> "SMS service error") @@
  (6005 :> "Storage service error") @@
  (6006 :> "Search service error") @@
  (6007 :> "Notification service error") @@
  (6008 :> "Analytics service error") @@
  (7001 :> "Operation not allowed") @@
  (7002 :> "Insufficient balance") @@
  (7003 :> "Transaction failed") @@
  (7004 :> "Order cannot be cancelled") @@
  (7005 :> "Order cannot be modified") @@
  (7006 :> "Item out of stock") @@
  (7007 :> "Coupon is invalid") @@
  (7008 :> "Coupon has expired") @@
  (7009 :> "Minimum order not met") @@
  (7010 :> "Maximum quantity exceeded") @@
  (7011 :> "Subscription required") @@
  (7012 :> "Subscription has expired") @@
  (7013 :> "Feature not available") @@
  (7014 :> "Quota exceeded") @@
  (7015 :> "Rate limit exceeded")

\* The messages table of getHttpStatusMessage.
httpStatusMessages ==
  (100 :> "Continue") @@
  (101 :> "Switching Protocols") @@
  (102 :> "Processing") @@
  (200 :> "OK") @@
  (201 :> "Created") @@
  (202 :> "Accepted") @@
  (203 :> "Non-Authoritative Information") @@
  (204 :> "No Content") @@
  (205 :> "Reset Content") @@
  (206 :> "Partial Content") @@
  (300 :> "Multiple Choices") @@
  (301 :> "Moved Permanently") @@
  (302 :> "Found") @@
  (303 :> "See Other") @@
  (304 :> "Not Modified") @@
  (307 :> "Temporary Redirect") @@
  (308 :> "Permanent Redirect") @@
  (400 :> "Bad Request") @@
  (401 :> "Unauthorized") @@
  (402 :> "Payment Required") @@
  (403 :> "Forbidden") @@
  (404 :> "Not Found") @@
  (405 :> "Method Not Allowed") @@
  (406 :> "Not Acceptable") @@
  (407 :> "Proxy Authentication Required") @@
  (408 :> "Request Timeout") @@
  (409 :> "Conflict") @@
  (410 :> "Gone") @@
  (411 :> "Length Required") @@
  (412 :> "Precondition Failed") @@
  (413 :> "Payload Too Large") @@
  (414 :> "URI Too Long") @@
  (415 :> "Unsupported Media Type") @@
  (416 :> "Range Not Satisfiable") @@
  (417 :> "Expectation Failed") @@
  (418 :> "I'm a Teapot") @@
  (422 :> "Unprocessable Entity") @@
  (423 :> "Locked") @@
  (424 :> "Failed Dependency") @@
  (425 :> "Too Early") @@
  (426 :> "Upgrade Required") @@
  (428 :> "Precondition Required") @@
  (429 :> "Too Many Requests") @@
  (431 :> "Request Header Fields Too Large") @@
  (451 :> "Unavailable For Legal Reasons") @@
  (500 :> "Internal Server Error") @@
  (501 :> "Not Implemented") @@
  (502 :> "Bad Gateway") @@
  (503 :> "Service Unavailable") @@
  (504 :> "Gateway Timeout") @@
  (505 :> "HTTP Version Not Supported") @@
  (506 :> "Variant Also Negotiates") @@
  (507 :> "Insufficient Storage") @@
  (508 :> "Loop Detected") @@
  (510 :> "Not Extended") @@
  (511 :> "Network Authentication Required")

\* getHttpStatusMessage with ?? '' in place of || 'Unknown Status' (mutant for C24).
getHttpStatusMessageNoSentinel(statusCode) ==
  IF statusCode \in DOMAIN httpStatusMessages
  THEN httpStatusMessages[statusCode]
  ELSE ""

\* getHttpStatusMessage(statusCode): messages[statusCode] || 'Unknown Status'
getHttpStatusMessage(statusCode) ==
  IF statusCode \in DOMAIN httpStatusMessages /\ httpStatusMessages[statusCode] # ""
  THEN httpStatusMessages[statusCode]
  ELSE "Unknown Status"

\* getBusinessCodeMessage(code)
getBusinessCodeMessage(code) ==
  IF code \in DOMAIN businessCodeMessages /\ businessCodeMessages[code] # ""
  THEN businessCodeMessages[code]
  ELSE "Unknown error"

\* A thrown value.  kind is what the instanceof chain of catch() tells apart:
\* "business" (BusinessException), "http" (HttpException), "error" (any other
\* Error) and "other" (a value that is no Error).
Thrown(kind, businessCode, message, statusCode, details, stack, response) ==
  [kind |-> kind, businessCode |-> businessCode, message |-> message,
   statusCode |-> statusCode, details |-> details, stack |-> stack,
   response |-> response]

\* new BusinessException(businessCode, message?, statusCode = 400, details?);
\* stack is the stack string the runtime attached, if any.
BusinessException(businessCode, message, statusCode, details, stack) ==
  Thrown("business", Some(businessCode),
         Some(Nullish(message, getBusinessCodeMessage(businessCode))),
         Some(Nullish(statusCode, HttpStatus_BAD_REQUEST)),
         details, stack, None)

\* A framework HttpException: getStatus() is statusCode, getResponse() is response.
HttpException(response, status, message, stack) ==
  Thrown("http", None, Some(message), Some(status), None, stack, Some(response))

\* new Error(message)
GenericError(message, stack) ==
  Thrown("error", None, Some(message), None, None, stack, None)

\* A thrown value that is no Error: a string, null, undefined, a plain object.
OtherValue(v) ==
  Thrown("other", None, None, None, None, None, Some(v))

\* mapHttpStatusToBusinessCode with FORBIDDEN mapped like UNAUTHORIZED
\* (mutant for C13).
mapHttpStatusToBusinessCodeForbiddenAsAuth(httpStatus) ==
  LET mapping ==
        (HttpStatus_BAD_REQUEST :> BusinessCode_INVALID_INPUT) @@
        (HttpStatus_UNAUTHORIZED :> BusinessCode_AUTH_FAILED) @@
        (HttpStatus_FORBIDDEN :> BusinessCode_AUTH_FAILED) @@
        (HttpStatus_NOT_FOUND :> BusinessCode_RESOURCE_NOT_FOUND) @@
        (HttpStatus_CONFLICT :> BusinessCode_RESOURCE_CONFLICT) @@
        (HttpStatus_UNPROCESSABLE_ENTITY :> BusinessCode_VALIDATION_ERROR) @@
        (HttpStatus_TOO_MANY_REQUESTS :> BusinessCode_RATE_LIMIT_EXCEEDED) @@
        (HttpStatus_INTERNAL_SERVER_ERROR :> BusinessCode_INTERNAL_ERROR) @@
        (HttpStatus_SERVICE_UNAVAILABLE :> BusinessCode_SERVICE_UNAVAILABLE)
  IN IF httpStatus \in DOMAIN mapping /\ mapping[httpStatus] # 0
     THEN mapping[httpStatus]
     ELSE BusinessCode_INTERNAL_ERROR

\* ApiExceptionFilter.mapHttpStatusToBusinessCode
mapHttpStatusToBusinessCode(httpStatus) ==
  LET mapping ==
        (HttpStatus_BAD_REQUEST :> BusinessCode_INVALID_INPUT) @@
        (HttpStatus_UNAUTHORIZED :> BusinessCode_AUTH_FAILED) @@
        (HttpStatus_FORBIDDEN :> BusinessCode_PERMISSION_DENIED) @@
        (HttpStatus_NOT_FOUND :> BusinessCode_RESOURCE_NOT_FOUND) @@
        (HttpStatus_CONFLICT :> BusinessCode_RESOURCE_CONFLICT) @@
        (HttpStatus_UNPROCESSABLE_ENTITY :> BusinessCode_VALIDATION_ERROR) @@
        (HttpStatus_TOO_MANY_REQUESTS :> BusinessCode_RATE_LIMIT_EXCEEDED) @@
        (HttpStatus_INTERNAL_SERVER_ERROR :> BusinessCode_INTERNAL_ERROR) @@
        (HttpStatus_SERVICE_UNAVAILABLE :> BusinessCode_SERVICE_UNAVAILABLE)
  IN IF httpStatus \in DOMAIN mapping /\ mapping[httpStatus] # 0
     THEN mapping[httpStatus]
     ELSE BusinessCode_INTERNAL_ERROR

\* The stack injection without the test of options.includeStack (mutant for C16).
InjectStackAlways(apiResponse, exception, options) ==
  IF exception.stack # None /\ exception.stack # Some("")
  THEN [apiResponse EXCEPT !.error =
          Some(Spread(apiResponse.error[1], [stack |-> exception.stack]))]
  ELSE apiResponse

\* The stack injection of catch(): error = { ...error, stack } when
\* options.includeStack and exception.stack are both truthy.
InjectStack(apiResponse, exception, options) ==
  IF options.includeStack = Some(TRUE) /\ exception.stack # None /\ exception.stack # Some("")
  THEN [apiResponse EXCEPT !.error =
          Some(Spread(apiResponse.error[1], [stack |-> exception.stack]))]
  ELSE apiResponse

\* The message and details catch() takes from an HttpException's getResponse().
\* response.type is typeof exceptionResponse; response.message is the message
\* property of an object response: absent, a string, or an array of strings.
HttpMessage(exception) ==
  LET resp == exception.response[1] IN
  IF resp.type = "string" THEN [message |-> resp.text, details |-> None]
  ELSE IF resp.type = "object"
       THEN IF resp.isArray
            THEN [message |-> "Validation failed", details |-> Some("errors")]
            ELSE [message |-> IF resp.message # None /\ resp.message # Some("")
                              THEN resp.message[1] ELSE exception.message[1],
                  details |-> None]
       ELSE [message |-> exception.message[1], details |-> None]

\* catch() with the stack injection on the HttpException branch as well
\* (mutant for C26).
CatchResponseStackOnHttp(exception, options) ==
  CASE exception.kind = "business" ->
         InjectStack(Error(ErrorParams(exception.message, exception.businessCode,
                                       exception.statusCode, exception.details)),
                     exception, options)
    [] exception.kind = "http" ->
         InjectStack(Error(ErrorParams(Some(HttpMessage(exception).message),
                                       Some(mapHttpStatusToBusinessCode(exception.statusCode[1])),
                                       exception.statusCode,
                                       HttpMessage(exception).details)),
                     exception, options)
    [] exception.kind = "error" ->
         InjectStack(Error(ErrorParams(Some(IF exception.message[1] # ""
                                            THEN exception.message[1]
                                            ELSE "Internal server error"),
                                       Some(BusinessCode_INTERNAL_ERROR),
                                       Some(HttpStatus_INTERNAL_SERVER_ERROR), None)),
                     exception, options)
    [] OTHER ->
         Error(ErrorParams(Some("Internal server error"),
                           Some(BusinessCode_INTERNAL_ERROR),
                           Some(HttpStatus_INTERNAL_SERVER_ERROR), None))

\* The apiResponse catch() builds for a thrown value.
CatchResponse(exception, options) ==
  CASE exception.kind = "business" ->
         InjectStack(Error(ErrorParams(exception.message, exception.businessCode,
                                       exception.statusCode, exception.details)),
                     exception, options)
    [] exception.kind = "http" ->
         Error(ErrorParams(Some(HttpMessage(exception).message),
                           Some(mapHttpStatusToBusinessCode(exception.statusCode[1])),
                           exception.statusCode,
                           HttpMessage(exception).details))
    [] exception.kind = "error" ->
         InjectStack(Error(ErrorParams(Some(IF exception.message[1] # ""
                                            THEN exception.message[1]
                                            ELSE "Internal server error"),
                                       Some(BusinessCode_INTERNAL_ERROR),
                                       Some(HttpStatus_INTERNAL_SERVER_ERROR), None)),
                     exception, options)
    [] OTHER ->
         Error(ErrorParams(Some("Internal server error"),
                           Some(BusinessCode_INTERNAL_ERROR),
                           Some(HttpStatus_INTERNAL_SERVER_ERROR), None))

\* apiResponse.statusCode || HttpStatus.INTERNAL_SERVER_ERROR
SentStatus(apiResponse) ==
  IF apiResponse.statusCode # None /\ apiResponse.statusCode[1] # 0
  THEN apiResponse.statusCode[1]
  ELSE HttpStatus_INTERNAL_SERVER_ERROR

\* catch() sending the response before it calls the logger (mutant for C15).
CatchEffectsResponseFirst(exception, options) ==
  LET apiResponse == CatchResponse(exception, options)
      logged == IF options.logger = "none" THEN <<>>
                ELSE <<[type |-> "log", error |-> exception, context |-> "ApiExceptionFilter"]>>
      sent == <<[type |-> "response", status |-> SentStatus(apiResponse),
                 body |-> apiResponse]>>
  IN sent \o logged

\* What catch() does after building apiResponse, in order: the logger call,
\* if a logger is configured, then response.status(...).json(apiResponse).
\* options.logger is "none", "returns" or "throws" (what the callback does).
CatchEffects(exception, options) ==
  LET apiResponse == CatchResponse(exception, options)
      logged == IF options.logger = "none" THEN <<>>
                ELSE <<[type |-> "log", error |-> exception, context |-> "ApiExceptionFilter"]>>
      sent == IF options.logger = "throws" THEN <<>>
              ELSE <<[type |-> "response", status |-> SentStatus(apiResponse),
                      body |-> apiResponse]>>
  IN logged \o sent

----------------------------------------------------------------------------
(* The values the calls are made with                                      *)

Opt(S) == {None} \cup {Some(v) : v \in S}

Datas == {"d1", "null"}

Messages == {"m1", ""}

StatusCodes == {HttpStatus_ACCEPTED, 0}

Codes == {BusinessCode_USER_NOT_FOUND, BusinessCode_SUCCESS}

DetailsValues == {"details1"}

Metas == {[page |-> 1], [page |-> 1, limit |-> 10]}

\* The values of params.error a caller of the constructor can pass.
ErrorDetailsValues ==
  {[code |-> Some(BusinessCode_INTERNAL_ERROR), details |-> None],
   [code |-> None, details |-> Some("details1")]}

\* The extra meta a caller of paginated can pass: undefined, keys of its own,
\* and keys named like the computed fields.
ExtraMetas ==
  {None,
   Some([source |-> "db"]),
   Some([totalPages |-> 99]),
   Some([hasNextPage |-> TRUE, source |-> "db"]),
   Some([page |-> 7, hasPreviousPage |-> FALSE])}

Stacks == Opt({"stack1", ""})

\* What getResponse() of an HttpException returns.
HttpResponses ==
  {[type |-> "string", text |-> "plain text", isArray |-> FALSE, message |-> None],
   [type |-> "object", text |-> "", isArray |-> FALSE, message |-> Some("object message")],
   [type |-> "object", text |-> "", isArray |-> FALSE, message |-> None],
   [type |-> "object", text |-> "", isArray |-> TRUE, message |-> Some("array")]}

HttpStatuses ==
  {HttpStatus_BAD_REQUEST, HttpStatus_UNAUTHORIZED, HttpStatus_FORBIDDEN,
   HttpStatus_NOT_FOUND, HttpStatus_CONFLICT, HttpStatus_UNPROCESSABLE_ENTITY,
   HttpStatus_TOO_MANY_REQUESTS, HttpStatus_INTERNAL_SERVER_ERROR,
   HttpStatus_SERVICE_UNAVAILABLE, 418, 0}

Exceptions ==
  {BusinessException(c, m, s, d, st) :
     c \in {BusinessCode_USER_NOT_FOUND}, m \in Opt(Messages),
     s \in Opt({HttpStatus_NOT_FOUND, 0}), d \in Opt(DetailsValues), st \in Stacks}
  \cup {HttpException(r, s, "Http Exception", st) :
     r \in HttpResponses, s \in HttpStatuses, st \in Stacks}
  \cup {GenericError(m, st) : m \in Messages, st \in Stacks}
  \cup {OtherValue(v) : v \in {"string", "null", "undefined", "object"}}

FilterOptions ==
  [includeStack : Opt(BOOLEAN), logger : {"none", "returns", "throws"}]

----------------------------------------------------------------------------
(* The response operations.  A behaviour is one call: Init draws the       *)
(* operation (op) and its arguments (args), the operation's action applies *)
(* it: out is the envelope it returns, events what catch() did to the      *)
(* logger and to the response object, in order.                            *)

ConstructorArgs ==
  [success : BOOLEAN, data : Opt(Datas), message : Opt({"m1"}),
   statusCode : Opt(StatusCodes), meta : Opt(Metas), error : Opt(ErrorDetailsValues)]

SuccessArgs ==
  [data : Opt(Datas), message : Opt(Messages), statusCode : Opt(StatusCodes),
   meta : Opt(Metas)]

ErrorArgs ==
  [message : Opt(Messages), code : Opt(Codes), statusCode : Opt(StatusCodes),
   details : Opt(DetailsValues)]

PaginatedArgs ==
  [data : {"items"}, page : 1..MaxPage, limit : 1..MaxLimit, total : 0..MaxTotal,
   message : Opt({"m1"}), statusCode : Opt({HttpStatus_ACCEPTED}), meta : ExtraMetas]

CatchArgs == [exception : Exceptions, options : FilterOptions]

InitResponse ==
  /\ pc = "call"
  /\ \/ op = "constructor" /\ args \in ConstructorArgs
     \/ op = "success" /\ args \in SuccessArgs
     \/ op = "error" /\ args \in ErrorArgs
     \/ op = "paginated" /\ args \in PaginatedArgs
     \/ op = "created" /\ args \in [data : Datas, message : Opt(Messages)]
     \/ op = "noContent" /\ args \in [message : Opt(Messages)]
     \/ op = "badRequest" /\ args \in [message : Opt(Messages), details : Opt(DetailsValues)]
     \/ op \in {"unauthorized", "notFound", "conflict"}
          /\ args \in [message : Opt(Messages), code : Opt(Codes)]
     \/ op \in {"forbidden", "tooManyRequests", "internalError"}
          /\ args \in [message : Opt(Messages)]
     \/ op = "validationError"
          /\ args \in [details : Opt(DetailsValues), message : Opt(Messages)]
     \/ op = "catch" /\ args \in CatchArgs
  /\ out = None
  /\ events = <<>>
  /\ json = <<>>
  /\ locale = "en"
  /\ fallbackLocale = "en"
  /\ customMessages = <<>>
  /\ history = <<>>
  /\ callerMaps = <<>>
  /\ stored = <<>>

\* The call op returns result.
Return(result) ==
  /\ pc' = "done"
  /\ out' = Some(result)
  /\ UNCHANGED <<op, args, events, json, i18nVars>>

Construct ==
  /\ pc = "call" /\ op = "constructor"
  /\ Return(ApiResponse(args))

SuccessCall ==
  /\ pc = "call" /\ op = "success"
  /\ Return(Success(args))

ErrorCall ==
  /\ pc = "call" /\ op = "error"
  /\ Return(Error(args))

PaginatedCall ==
  /\ pc = "call" /\ op = "paginated"
  /\ Return(Paginated(args))

CreatedCall ==
  /\ pc = "call" /\ op = "created"
  /\ Return(Created(args.data, args.message))

NoContentCall ==
  /\ pc = "call" /\ op = "noContent"
  /\ Return(NoContent(args.message))

BadRequestCall ==
  /\ pc = "call" /\ op = "badRequest"
  /\ Return(BadRequest(args.message, args.details))

UnauthorizedCall ==
  /\ pc = "call" /\ op = "unauthorized"
  /\ Return(Unauthorized(args.message, args.code))

ForbiddenCall ==
  /\ pc = "call" /\ op = "forbidden"
  /\ Return(Forbidden(args.message))

NotFoundCall ==
  /\ pc = "call" /\ op = "notFound"
  /\ Return(NotFound(args.message, args.code))

ConflictCall ==
  /\ pc = "call" /\ op = "conflict"
  /\ Return(Conflict(args.message, args.code))

ValidationErrorCall ==
  /\ pc = "call" /\ op = "validationError"
  /\ Return(ValidationError(args.details, args.message))

TooManyRequestsCall ==
  /\ pc = "call" /\ op = "tooManyRequests"
  /\ Return(TooManyRequests(args.message))

InternalErrorCall ==
  /\ pc = "call" /\ op = "internalError"
  /\ Return(InternalError(args.message))

\* ApiExceptionFilter.catch(exception, host) of a filter built with options.
Catch ==
  /\ pc = "call" /\ op = "catch"
  /\ pc' = "done"
  /\ out' = Some(CatchResponse(args.exception, args.options))
  /\ events' = CatchEffects(args.exception, args.options)
  /\ UNCHANGED <<op, args, json, i18nVars>>

\* envelope.toJSON() on the envelope the call returned; json collects what the
\* calls returned, in order.
ToJSONCall ==
  /\ pc = "done" /\ out # None
  /\ Len(json) < MaxSerializations
  /\ json' = Append(json, toJSON(out[1]))
  /\ UNCHANGED <<pc, op, args, out, events, i18nVars>>

NextResponse ==
  \/ Construct
  \/ SuccessCall
  \/ ErrorCall
  \/ PaginatedCall
  \/ CreatedCall
  \/ NoContentCall
  \/ BadRequestCall
  \/ UnauthorizedCall
  \/ ForbiddenCall
  \/ NotFoundCall
  \/ ConflictCall
  \/ ValidationErrorCall
  \/ TooManyRequestsCall
  \/ InternalErrorCall
  \/ Catch
  \/ ToJSONCall

SpecResponse == InitResponse /\ [][NextResponse]_vars

----------------------------------------------------------------------------
(* Claims about the envelope, checked under SpecResponse                   *)

Returned == pc = "done"

Env == out[1]

\* success is true exactly when error is undefined.
Consistent(e) == e.success = (e.error = None)

Factories ==
  {"success", "error", "paginated", "created", "noContent", "badRequest",
   "unauthorized", "forbidden", "notFound", "conflict", "validationError",
   "tooManyRequests", "internalError"}

\* The envelopes catch() passed to response.status(...).json(...).
SentBodies == {events[i].body : i \in {j \in DOMAIN events : events[j].type = "response"}}

\* C1 as stated: every envelope obtainable through the public API - from the
\* constructor with arbitrary parameters, from a static factory, or sent by the
\* exception filter after stack injection - has success = true exactly when its
\* error field is absent.
C1_AllEnvelopesConsistent ==
  Returned => /\ Consistent(Env)
              /\ \A b \in SentBodies : Consistent(b)

\* C1 amended: every envelope a static factory returns, and every envelope the
\* exception filter builds or sends (stack injection included), has success = true
\* exactly when its error field is absent.  The constructor copies its parameters
\* unchecked and is not covered.
C1_FactoryEnvelopesConsistent ==
  (Returned /\ op # "constructor") =>
     /\ Consistent(Env)
     /\ \A b \in SentBodies : Consistent(b)

\* C1 witness: the filter sent an envelope into which it injected a stack.
C1_Witness ==
  /\ Returned /\ op = "catch"
  /\ \E b \in SentBodies : b.error # None /\ "stack" \in DOMAIN b.error[1] /\ ~b.success

\* C2: success(...) and created(...) return success = true with error absent
\* (message default 'Success', statusCode default 200; created pins 201 and has
\* the default message 'Resource created successfully'); noContent(...) returns
\* success = true, statusCode 204 and no data; error(...) returns success = false,
\* data and meta absent and error = {code, details}, with the defaults 'Error',
\* 5001 (INTERNAL_ERROR) and 500.
C2_FactoryShapes ==
  Returned =>
    /\ op = "success" =>
         /\ Env.success = TRUE /\ Env.error = None
         /\ Env.data = args.data /\ Env.meta = args.meta
         /\ Env.message = IF args.message = None THEN Some("Success") ELSE args.message
         /\ Env.statusCode = IF args.statusCode = None THEN Some(200) ELSE args.statusCode
    /\ op = "created" =>
         /\ Env.success = TRUE /\ Env.error = None
         /\ Env.data = Some(args.data)
         /\ Env.statusCode = Some(201)
         /\ Env.message = IF args.message = None
                          THEN Some("Resource created successfully") ELSE args.message
    /\ op = "noContent" =>
         /\ Env.success = TRUE /\ Env.error = None
         /\ Env.statusCode = Some(204)
         /\ Env.data = None
    /\ op = "error" =>
         /\ Env.success = FALSE
         /\ Env.data = None /\ Env.meta = None
         /\ Env.error = Some([code |-> IF args.code = None THEN Some(5001) ELSE args.code,
                              details |-> args.details])
         /\ Env.message = IF args.message = None THEN Some("Error") ELSE args.message
         /\ Env.statusCode = IF args.statusCode = None THEN Some(500) ELSE args.statusCode

\* C2 witness: error() was called with neither message, code nor statusCode and
\* returned the defaults.
C2_Witness ==
  /\ Returned /\ op = "error"
  /\ args.message = None /\ args.code = None /\ args.statusCode = None
  /\ Env.error[1].code = Some(5001)

\* The six keys paginated computes.
ComputedKeys == {"page", "limit", "total", "totalPages", "hasNextPage", "hasPreviousPage"}

\* ceil(t / l) stated without the division: the least n with n * l >= t.
LeastCover(t, l) == CHOOSE n \in 0..t : n * l >= t /\ \A k \in 0..(n - 1) : k * l < t

\* C3 as stated: for every page >= 1, limit >= 1 and total >= 0 the meta paginated
\* returns echoes page, limit and total and has totalPages = ceil(total / limit),
\* hasNextPage = (page < totalPages) and hasPreviousPage = (page > 1).
C3_PaginationArithmetic ==
  (Returned /\ op = "paginated") =>
    LET meta == Env.meta[1]
        tp == LeastCover(args.total, args.limit)
    IN /\ meta.page = args.page
       /\ meta.limit = args.limit
       /\ meta.total = args.total
       /\ meta.totalPages = tp
       /\ meta.hasNextPage = (args.page < tp)
       /\ meta.hasPreviousPage = (args.page > 1)

\* The same arithmetic for the calls whose extra meta names none of the computed
\* fields (these are the only calls on which C3 can fail).
C3_ArithmeticWithoutOverride ==
  (Returned /\ op = "paginated"
     /\ (args.meta = None \/ DOMAIN args.meta[1] \cap ComputedKeys = {})) =>
    LET meta == Env.meta[1]
        tp == LeastCover(args.total, args.limit)
    IN /\ meta.page = args.page /\ meta.limit = args.limit /\ meta.total = args.total
       /\ meta.totalPages = tp
       /\ meta.hasNextPage = (args.page < tp)
       /\ meta.hasPreviousPage = (args.page > 1)
       /\ (args.page = 1 /\ args.limit = 10 /\ args.total = 25) =>
            (meta.totalPages = 3 /\ meta.hasNextPage /\ ~meta.hasPreviousPage)
       /\ (args.page = 3 /\ args.limit = 10 /\ args.total = 25) =>
            (~meta.hasNextPage /\ meta.hasPreviousPage)
       /\ (args.page = 1 /\ args.limit = 10 /\ args.total = 5) =>
            (meta.totalPages = 1 /\ ~meta.hasNextPage /\ ~meta.hasPreviousPage)

\* C4 as stated: the computed fields win over same-named keys of the extra meta:
\* whatever extra meta is passed, the six derived fields are the values computed
\* from (page, limit, total), and extra keys of other names are merged alongside.
C4_ComputedFieldsWin ==
  (Returned /\ op = "paginated") =>
    LET meta == Env.meta[1]
        extra == IF args.meta = None THEN <<>> ELSE args.meta[1]
        tp == LeastCover(args.total, args.limit)
        derived == [page |-> args.page, limit |-> args.limit, total |-> args.total,
                    totalPages |-> tp, hasNextPage |-> args.page < tp,
                    hasPreviousPage |-> args.page > 1]
    IN /\ \A k \in ComputedKeys : meta[k] = derived[k]
       /\ \A k \in (DOMAIN extra) \ ComputedKeys : k \in DOMAIN meta /\ meta[k] = extra[k]

\* The (statusCode, default business code) pair of each error shorthand.
ShorthandTable ==
  [badRequest      |-> <<400, 3002>>,
   unauthorized    |-> <<401, 1001>>,
   forbidden       |-> <<403, 1007>>,
   notFound        |-> <<404, 4001>>,
   conflict        |-> <<409, 4008>>,
   validationError |-> <<422, 3001>>,
   tooManyRequests |-> <<429, 7015>>,
   internalError   |-> <<500, 5001>>]

\* C10: each error shorthand returns an error envelope (success = false) with its
\* pinned statusCode whatever the arguments; error.code is its default business
\* code, except that unauthorized, notFound and conflict use an explicit code
\* argument instead when one is passed.
C10_ShorthandsPinned ==
  (Returned /\ op \in DOMAIN ShorthandTable) =>
    /\ Env.success = FALSE
    /\ Env.error # None
    /\ Env.statusCode = Some(ShorthandTable[op][1])
    /\ Env.error[1].code =
         IF op \in {"unauthorized", "notFound", "conflict"} /\ args.code # None
         THEN args.code
         ELSE Some(ShorthandTable[op][2])

\* C10 witness: notFound was called with an explicit code, which replaced the
\* default code and left the statusCode at 404.
C10_Witness ==
  /\ Returned /\ op = "notFound"
  /\ args.code = Some(2001)
  /\ Env.error[1].code = Some(2001)
  /\ Env.statusCode = Some(404)

\* The fields of an envelope that can be absent.
OptionalFields == {"data", "message", "statusCode", "meta", "error"}

\* C11: every toJSON() call emits success, emits each of data, message,
\* statusCode, meta and error with the field's value exactly when the field is
\* not absent, and no other key; it leaves the envelope as it was; and its
\* output equals the output of every earlier toJSON() call on the envelope.
C11_ToJSONOmitsAbsentFields ==
  [][json' # json =>
       LET emitted == json'[Len(json')] IN
       /\ out' = out
       /\ DOMAIN emitted \subseteq {"success"} \cup OptionalFields
       /\ "success" \in DOMAIN emitted /\ emitted.success = out[1].success
       /\ \A f \in OptionalFields :
            IF out[1][f] = None
            THEN f \notin DOMAIN emitted
            ELSE f \in DOMAIN emitted /\ emitted[f] = out[1][f][1]
       /\ \A i \in DOMAIN json : json[i] = emitted]_vars

\* C11 witness: toJSON() was called twice on the envelope of success(); both
\* outputs hold success, message and statusCode and no data, meta or error key.
C11_Witness ==
  /\ op = "success"
  /\ args = [data |-> None, message |-> None, statusCode |-> None, meta |-> None]
  /\ Len(json) = 2
  /\ json[1] = json[2]
  /\ DOMAIN json[1] = {"success", "message", "statusCode"}
  /\ json[1].message = "Success"

----------------------------------------------------------------------------
(* Claims about ApiExceptionFilter.catch, checked under SpecResponse       *)

Caught == pc = "done" /\ op = "catch"

\* The positions in events of the logger calls and of the responses sent.
LogCalls == {i \in DOMAIN events : events[i].type = "log"}

Responses == {i \in DOMAIN events : events[i].type = "response"}

\* What the claim says of an envelope e answering the thrown value x.
\* emptyMessageText is the message it names for a generic Error whose own
\* message is the empty string.
Classified(e, x, emptyMessageText) ==
  /\ e.success = FALSE
  /\ e.error # None
  /\ CASE x.kind = "business" ->
            /\ e.error[1].code = x.businessCode
            /\ e.statusCode = x.statusCode
            /\ e.message = x.message
            /\ e.error[1].details = x.details
       [] x.kind = "error" ->
            /\ e.statusCode = Some(500)
            /\ e.error[1].code = Some(5001)
            /\ e.message = Some(IF x.message[1] = "" THEN emptyMessageText ELSE x.message[1])
       [] x.kind = "other" ->
            /\ e.statusCode = Some(500)
            /\ e.error[1].code = Some(5001)
            /\ e.message = Some("Internal server error")
       [] OTHER -> TRUE

\* C12: for every thrown value catch() sends exactly one envelope, with
\* success = false; a BusinessException's envelope carries its businessCode,
\* statusCode, message and details; a generic Error's carries 500, INTERNAL_ERROR
\* and the error's message; any other value's carries 500, INTERNAL_ERROR and
\* 'Internal server error'.
C12_EveryThrownValueAnswered ==
  Caught =>
    /\ Cardinality(Responses) = 1
    /\ \A i \in Responses : Classified(events[i].body, args.exception, "")

\* The classification of C12 for the envelopes that are sent, a generic Error
\* with an empty message being answered with 'Internal server error'.
C12_SentEnvelopesClassified ==
  Caught =>
    /\ Cardinality(Responses) <= 1
    /\ Classified(Env, args.exception, "Internal server error")
    /\ \A i \in Responses : events[i].body = Env

\* The table of C13.
StatusTable ==
  (400 :> 3002) @@ (401 :> 1001) @@ (403 :> 1007) @@ (404 :> 4001) @@ (409 :> 4008) @@
  (422 :> 3001) @@ (429 :> 7015) @@ (500 :> 5001) @@ (503 :> 5004)

\* C13: for an HttpException with status s, the envelope catch() builds, and
\* every envelope it sends, has statusCode s and error.code StatusTable[s], or
\* INTERNAL_ERROR (5001) when s is not in the table.
C13_HttpStatusMapped ==
  (Caught /\ args.exception.kind = "http") =>
    LET s == args.exception.statusCode[1] IN
    \A e \in {Env} \cup SentBodies :
      /\ e.statusCode = Some(s)
      /\ e.error[1].code = Some(IF s \in DOMAIN StatusTable THEN StatusTable[s] ELSE 5001)

\* C13 witness: an HttpException with status 403 was answered with an envelope
\* of statusCode 403 and code 1007 (PERMISSION_DENIED).
C13_Witness ==
  /\ Caught /\ args.exception.kind = "http"
  /\ args.exception.statusCode = Some(403)
  /\ \E b \in SentBodies : b.statusCode = Some(403) /\ b.error[1].code = Some(1007)

\* C14: whatever the logger does, its throwing included, a call of catch() ends
\* with response.status(...).json(envelope) called.
C14_ResponseSentWhateverLoggerDoes ==
  Caught => Responses # {}

\* C15: with a logger configured, catch() calls it exactly once, with the thrown
\* value and 'ApiExceptionFilter', before any response is sent; with none
\* configured, nothing is logged.
C15_LoggedOnceBeforeResponse ==
  Caught =>
    IF args.options.logger = "none"
    THEN LogCalls = {}
    ELSE /\ Cardinality(LogCalls) = 1
         /\ \A i \in LogCalls :
              /\ events[i].error = args.exception
              /\ events[i].context = "ApiExceptionFilter"
              /\ \A j \in Responses : i < j

\* C15 witness: a value that is no Error was thrown, the logger was called with
\* it and the response was sent after that.
C15_Witness ==
  /\ Caught /\ args.exception.kind = "other"
  /\ args.options.logger = "returns"
  /\ Len(events) = 2
  /\ events[1].type = "log" /\ events[1].error = args.exception
  /\ events[2].type = "response"

\* The thrown value carries a stack: its stack property is a non-empty string.
CarriesStack(x) == x.stack # None /\ x.stack # Some("")

\* C16: with includeStack unset or false, no envelope catch() builds or sends has
\* an error.stack field; with includeStack true, the envelope for a
\* BusinessException or generic Error that carries a stack has error.stack equal
\* to that stack, and success, message, statusCode, error.code and error.details
\* are those of the envelope built for the same thrown value without the flag.
C16_IncludeStackControlsStack ==
  Caught =>
    LET x == args.exception
        plain == CatchResponse(x, [args.options EXCEPT !.includeStack = None])
    IN \A e \in {Env} \cup SentBodies :
         /\ args.options.includeStack # Some(TRUE) => "stack" \notin DOMAIN e.error[1]
         /\ (args.options.includeStack = Some(TRUE) /\ x.kind \in {"business", "error"}
               /\ CarriesStack(x)) =>
              /\ "stack" \in DOMAIN e.error[1] /\ e.error[1].stack = x.stack
              /\ "stack" \notin DOMAIN plain.error[1]
              /\ e.error[1].code = plain.error[1].code
              /\ e.error[1].details = plain.error[1].details
              /\ e.message = plain.message
              /\ e.statusCode = plain.statusCode
              /\ e.success = plain.success

\* C16 witness: a BusinessException with details and a stack was answered, under
\* includeStack, with an envelope holding its stack, its code and its details.
C16_Witness ==
  /\ Caught /\ args.exception.kind = "business"
  /\ args.options.includeStack = Some(TRUE)
  /\ args.exception.details = Some("details1")
  /\ \E b \in SentBodies :
       /\ "stack" \in DOMAIN b.error[1]
       /\ b.error[1].stack = Some("stack1")
       /\ b.error[1].code = Some(2001)
       /\ b.error[1].details = Some("details1")

\* C25: the status catch() passes to response.status() equals the statusCode of
\* the envelope it sends as the body, for every thrown value, a carried status
\* of 0 included.
C25_SentStatusIsBodyStatus ==
  Caught => \A i \in Responses : Some(events[i].status) = events[i].body.statusCode

\* The equality of C25 for the envelopes whose statusCode is not 0.
C25_NonZeroStatusSentAsIs ==
  Caught => \A i \in Responses :
              events[i].body.statusCode # Some(0)
                => Some(events[i].status) = events[i].body.statusCode

\* C26: with includeStack true, the envelope catch() builds and sends for an
\* HttpException has no error.stack, whether or not the exception has a stack.
C26_NoStackForHttpException ==
  (Caught /\ args.exception.kind = "http" /\ args.options.includeStack = Some(TRUE)) =>
    \A e \in {Env} \cup SentBodies : "stack" \notin DOMAIN e.error[1]

\* C26 witness: an HttpException with a stack was answered under includeStack
\* and the envelope sent holds code and details only.
C26_Witness ==
  /\ Caught /\ args.exception.kind = "http"
  /\ args.options.includeStack = Some(TRUE)
  /\ args.exception.stack = Some("stack1")
  /\ \E b \in SentBodies : DOMAIN b.error[1] = {"code", "details"}

\* C30: for every page >= 1, limit >= 1 and total >= 0 the meta paginated
\* returns has hasNextPage true exactly when page * limit < total, has
\* (totalPages - 1) * limit < total <= totalPages * limit when total > 0, has
\* totalPages = 0 and hasNextPage false when total = 0, and has the page given.
C30_PaginationBounds ==
  (Returned /\ op = "paginated") =>
    LET meta == Env.meta[1] IN
    /\ meta.hasNextPage = (args.page * args.limit < args.total)
    /\ args.total > 0 =>
         /\ (meta.totalPages - 1) * args.limit < args.total
         /\ args.total <= meta.totalPages * args.limit
    /\ args.total = 0 => (meta.totalPages = 0 /\ ~meta.hasNextPage)
    /\ meta.page = args.page

\* The bounds of C30 for the calls whose extra meta names none of the computed
\* fields.
C30_BoundsWithoutOverride ==
  (Returned /\ op = "paginated"
     /\ (args.meta = None \/ DOMAIN args.meta[1] \cap ComputedKeys = {})) =>
    LET meta == Env.meta[1] IN
    /\ meta.hasNextPage = (args.page * args.limit < args.total)
    /\ args.total > 0 =>
         /\ (meta.totalPages - 1) * args.limit < args.total
         /\ args.total <= meta.totalPages * args.limit
    /\ args.total = 0 => (meta.totalPages = 0 /\ ~meta.hasNextPage)
    /\ meta.page = args.page

----------------------------------------------------------------------------
(* BusinessMessageProvider (i18n/message-provider.ts)                      *)
(*                                                                         *)
(* A MessageMap is a function from the codes it has an entry for to their  *)
(* texts; customMessages is the Map<Locale, MessageMap> of the provider, a *)
(* function from the locales that have an override map.  history is the    *)
(* list of registrations made so far (the constructor's included), kept to *)
(* state the claims; the provider does not read it.  callerMaps holds what *)
(* the map object of each registration holds now, and stored tells, for    *)
(* each locale of customMessages, which object the Map holds: the caller's *)
(* object of registration i (the constructor stores the object it is       *)
(* given), or 0 for an object the provider created.                        *)

\* The largest number of registrations in a behaviour.
MaxRegs == 2

\* Locale is 'en' | 'vi' for the type checker; at run time any string can be
\* passed, and "fr" stands for a locale with no built-in table.
Locales == {"en", "vi", "fr"}

\* The codes asked for: one with a built-in message in en and vi, one with none.
MessageCodes == {BusinessCode_USER_NOT_FOUND, 9999}

\* enMessages and viMessages, for the codes asked for (the two tables have the
\* same keys and no empty text).
enMessages == (BusinessCode_USER_NOT_FOUND :> "User not found")

viMessages == (BusinessCode_USER_NOT_FOUND :> "Khong tim thay nguoi dung")

builtInMessages == [en |-> enMessages, vi |-> viMessages]

DEFAULT_UNKNOWN_MESSAGE == [en |-> "Unknown error", vi |-> "Loi khong xac dinh"]

\* The maps callers register.
MessageMaps ==
  {(BusinessCode_USER_NOT_FOUND :> "X"),
   (BusinessCode_USER_NOT_FOUND :> "") @@ (9999 :> "Y"),
   (9999 :> "Y"),
   (9999 :> "")}

\* table[key]?.[code]: the entry of code in the map table holds for key.
Lookup(table, key, code) ==
  IF key \in DOMAIN table /\ code \in DOMAIN table[key]
  THEN Some(table[key][code])
  ELSE None

\* if (x): x is a string that is not empty.
Truthy(x) == x # None /\ x # Some("")

\* The constructor: Object.entries(config.customMessages).forEach(set), for a
\* config.customMessages that maps some locales to a map or to undefined.
ConstructorMessages(config) ==
  IF config.customMessages = None THEN <<>>
  ELSE LET given == config.customMessages[1]
           kept == {l \in DOMAIN given : given[l] # None}
       IN [l \in kept |-> given[l][1]]

\* The registrations the constructor makes, in the order of Object.entries.
ConstructorHistory(config) ==
  LET made == ConstructorMessages(config)
      entry(l) == IF l \in DOMAIN made THEN <<[locale |-> l, messages |-> made[l]]>> ELSE <<>>
  IN entry("en") \o entry("vi")

\* The caller's map objects after the constructor: as they were given.
ConstructorCallerMaps(config) ==
  [i \in DOMAIN ConstructorHistory(config) |-> ConstructorHistory(config)[i].messages]

\* The constructor's this.customMessages.set(locale, messages): the Map holds the
\* caller's object.
ConstructorStored(config) ==
  [l \in DOMAIN ConstructorMessages(config) |->
     CHOOSE i \in DOMAIN ConstructorHistory(config) : ConstructorHistory(config)[i].locale = l]

\* registerMessages merging into the object the Map holds, with
\* Object.assign(existing, messages) (mutant for C28).
registerMessagesObjectsAssign(l, messages) ==
  [callerMaps |->
     Append(IF l \in DOMAIN stored /\ stored[l] # 0
            THEN [callerMaps EXCEPT ![stored[l]] = Spread(@, messages)]
            ELSE callerMaps,
            messages),
   stored |-> [k \in (DOMAIN stored) \cup {l} |-> IF k \in DOMAIN stored THEN stored[k] ELSE 0]]

\* registerMessages(locale, messages) and the objects: { ...existing, ...messages }
\* is a new object, existing and messages are read only.
registerMessagesObjects(l, messages) ==
  [callerMaps |-> Append(callerMaps, messages),
   stored |-> [k \in (DOMAIN stored) \cup {l} |-> IF k = l THEN 0 ELSE stored[k]]]

\* registerMessages with set(locale, messages), the whole table replaced
\* (mutant for C7).
registerMessagesReplacing(l, messages) ==
  [k \in (DOMAIN customMessages) \cup {l} |->
     IF k = l THEN messages ELSE customMessages[k]]

\* registerMessages storing under this.locale in place of the parameter
\* (mutant for C6).
registerMessagesCurrentLocale(l, messages) ==
  [k \in (DOMAIN customMessages) \cup {locale} |->
     IF k = locale
     THEN Spread(IF locale \in DOMAIN customMessages THEN customMessages[locale] ELSE <<>>,
                 messages)
     ELSE customMessages[k]]

\* registerMessages(locale, messages): the new value of customMessages.
registerMessages(l, messages) ==
  LET existing == IF l \in DOMAIN customMessages THEN customMessages[l] ELSE <<>>
  IN [k \in (DOMAIN customMessages) \cup {l} |->
        IF k = l THEN Spread(existing, messages) ELSE customMessages[k]]

\* The step of getMessage that returns: 1 custom message of the target locale,
\* 2 its built-in message, 3 custom message of the fallback locale, 4 its
\* built-in message, 5 the unknown message.
getMessageStep(code, loc) ==
  LET targetLocale == Nullish(loc, locale) IN
  IF Truthy(Lookup(customMessages, targetLocale, code)) THEN 1
  ELSE IF Truthy(Lookup(builtInMessages, targetLocale, code)) THEN 2
  ELSE IF targetLocale # fallbackLocale
            /\ Truthy(Lookup(customMessages, fallbackLocale, code)) THEN 3
  ELSE IF targetLocale # fallbackLocale
            /\ Truthy(Lookup(builtInMessages, fallbackLocale, code)) THEN 4
  ELSE 5

\* getMessage looking at the built-in table before the custom one (mutant for C5).
getMessageBuiltInFirst(code, loc) ==
  LET targetLocale == Nullish(loc, locale) IN
  IF Truthy(Lookup(builtInMessages, targetLocale, code))
  THEN Lookup(builtInMessages, targetLocale, code)[1]
  ELSE IF Truthy(Lookup(customMessages, targetLocale, code))
  THEN Lookup(customMessages, targetLocale, code)[1]
  ELSE IF targetLocale # fallbackLocale
            /\ Truthy(Lookup(customMessages, fallbackLocale, code))
  THEN Lookup(customMessages, fallbackLocale, code)[1]
  ELSE IF targetLocale # fallbackLocale
            /\ Truthy(Lookup(builtInMessages, fallbackLocale, code))
  THEN Lookup(builtInMessages, fallbackLocale, code)[1]
  ELSE IF targetLocale \in DOMAIN DEFAULT_UNKNOWN_MESSAGE
  THEN DEFAULT_UNKNOWN_MESSAGE[targetLocale]
  ELSE DEFAULT_UNKNOWN_MESSAGE.en

\* getMessage with !== undefined in place of the truthiness tests
\* (mutant for C29).
getMessageDefinedWins(code, loc) ==
  LET targetLocale == Nullish(loc, locale) IN
  IF Lookup(customMessages, targetLocale, code) # None
  THEN Lookup(customMessages, targetLocale, code)[1]
  ELSE IF Lookup(builtInMessages, targetLocale, code) # None
  THEN Lookup(builtInMessages, targetLocale, code)[1]
  ELSE IF targetLocale # fallbackLocale /\ Lookup(customMessages, fallbackLocale, code) # None
  THEN Lookup(customMessages, fallbackLocale, code)[1]
  ELSE IF targetLocale # fallbackLocale /\ Lookup(builtInMessages, fallbackLocale, code) # None
  THEN Lookup(builtInMessages, fallbackLocale, code)[1]
  ELSE IF targetLocale \in DOMAIN DEFAULT_UNKNOWN_MESSAGE
  THEN DEFAULT_UNKNOWN_MESSAGE[targetLocale]
  ELSE DEFAULT_UNKNOWN_MESSAGE.en

\* getMessage(code, locale?)
getMessage(code, loc) ==
  LET targetLocale == Nullish(loc, locale)
      step == getMessageStep(code, loc)
  IN CASE step = 1 -> Lookup(customMessages, targetLocale, code)[1]
       [] step = 2 -> Lookup(builtInMessages, targetLocale, code)[1]
       [] step = 3 -> Lookup(customMessages, fallbackLocale, code)[1]
       [] step = 4 -> Lookup(builtInMessages, fallbackLocale, code)[1]
       [] OTHER -> IF targetLocale \in DOMAIN DEFAULT_UNKNOWN_MESSAGE
                   THEN DEFAULT_UNKNOWN_MESSAGE[targetLocale]
                   ELSE DEFAULT_UNKNOWN_MESSAGE.en

\* hasMessage(code, locale?)
hasMessage(code, loc) ==
  LET targetLocale == Nullish(loc, locale)
  IN \/ Lookup(customMessages, targetLocale, code) # None
     \/ Lookup(builtInMessages, targetLocale, code) # None

\* The configs the provider is constructed with.
Configs ==
  [locale : Opt({"vi"}), fallbackLocale : Opt({"vi"}),
   customMessages : {None,
                     Some([vi |-> Some((BusinessCode_USER_NOT_FOUND :> "Y")), en |-> None])}]

\* new BusinessMessageProvider(config)
InitI18n ==
  \E config \in Configs :
    /\ locale = Nullish(config.locale, "en")
    /\ fallbackLocale = Nullish(config.fallbackLocale, "en")
    /\ customMessages = ConstructorMessages(config)
    /\ history = ConstructorHistory(config)
    /\ callerMaps = ConstructorCallerMaps(config)
    /\ stored = ConstructorStored(config)
    /\ pc = "provider"
    /\ op = "constructor"
    /\ args = config
    /\ out = None
    /\ events = <<>>
    /\ json = <<>>

SetLocale ==
  \E l \in Locales :
    /\ locale' = l
    /\ op' = "setLocale"
    /\ args' = [locale |-> l]
    /\ out' = None
    /\ UNCHANGED <<pc, events, json, fallbackLocale, customMessages, history, callerMaps, stored>>

RegisterMessages ==
  \E l \in Locales, m \in MessageMaps :
    /\ Len(history) < MaxRegs
    /\ customMessages' = registerMessages(l, m)
    /\ history' = Append(history, [locale |-> l, messages |-> m])
    /\ callerMaps' = registerMessagesObjects(l, m).callerMaps
    /\ stored' = registerMessagesObjects(l, m).stored
    /\ op' = "registerMessages"
    /\ args' = [locale |-> l, messages |-> m]
    /\ out' = None
    /\ UNCHANGED <<pc, events, json, locale, fallbackLocale>>

GetMessage ==
  \E code \in MessageCodes, loc \in Opt(Locales) :
    /\ op' = "getMessage"
    /\ args' = [code |-> code, locale |-> loc]
    /\ out' = Some(getMessage(code, loc))
    /\ UNCHANGED <<pc, events, json, i18nVars>>

HasMessage ==
  \E code \in MessageCodes, loc \in Opt(Locales) :
    /\ op' = "hasMessage"
    /\ args' = [code |-> code, locale |-> loc]
    /\ out' = Some(hasMessage(code, loc))
    /\ UNCHANGED <<pc, events, json, i18nVars>>

NextI18n ==
  \/ SetLocale
  \/ RegisterMessages
  \/ GetMessage
  \/ HasMessage

SpecI18n == InitI18n /\ [][NextI18n]_vars

----------------------------------------------------------------------------
(* Claims about the message provider, checked under SpecI18n               *)

\* The resolution order of the claim: the first of the five steps that hits,
\* where Hit says which table entries count as a hit.
FirstHit(code, loc, Hit(_)) ==
  LET L == IF loc = None THEN locale ELSE loc[1]
      o1 == Lookup(customMessages, L, code)
      b2 == Lookup(builtInMessages, L, code)
      o3 == Lookup(customMessages, fallbackLocale, code)
      b4 == Lookup(builtInMessages, fallbackLocale, code)
  IN IF Hit(o1) THEN o1[1]
     ELSE IF Hit(b2) THEN b2[1]
     ELSE IF fallbackLocale # L /\ Hit(o3) THEN o3[1]
     ELSE IF Hit(b4) THEN b4[1]
     ELSE IF L = "vi" THEN "Loi khong xac dinh"
     ELSE "Unknown error"

\* An entry is there.
Present(x) == x # None

\* An entry is there and its text is not empty.
NonEmpty(x) == x # None /\ x[1] # ""

DeclaredLocales == {"en", "vi"}

\* The texts of the maps callers register.
Texts == {"X", "Y", ""}

\* The step is registerMessages(L, {c: X}).
RegistersOne(L, c, X) ==
  op' = "registerMessages" /\ args' = [locale |-> L, messages |-> (c :> X)]

Mentions(l, c) ==
  {i \in DOMAIN history : history[i].locale = l /\ c \in DOMAIN history[i].messages}

\* The greatest element of a non-empty set of numbers.
Last(S) == CHOOSE i \in S : \A j \in S : j <= i

\* C7: after any sequence of registrations (the constructor's included), the
\* override map of each locale holds, for each code, the text of the last
\* registration for that locale that mentioned the code, and no entry for a code
\* never registered for it: earlier codes are kept, the table is merged into and
\* never replaced, and registering a map again changes nothing.
C7_LastRegistrationWins ==
  \A l \in Locales, c \in MessageCodes :
    IF Mentions(l, c) = {}
    THEN Lookup(customMessages, l, c) = None
    ELSE Lookup(customMessages, l, c) = Some(history[Last(Mentions(l, c))].messages[c])

\* C7 witness: two registrations for one locale, the second not mentioning a code
\* of the first, and the override map still holds that code.
C7_Witness ==
  /\ Len(history) = 2
  /\ history[1].locale = history[2].locale
  /\ \E c \in DOMAIN history[1].messages :
       /\ c \notin DOMAIN history[2].messages
       /\ Lookup(customMessages, history[1].locale, c) = Some(history[1].messages[c])
  /\ \E c \in DOMAIN history[2].messages :
       Lookup(customMessages, history[2].locale, c) = Some(history[2].messages[c])

\* C8 as stated: hasMessage(code, locale?) is true exactly when getMessage for the
\* same code and locale is answered by step 1 or step 2, the override or the
\* built-in entry of the requested locale.
C8_HasMessageMatchesGetMessage ==
  op = "hasMessage" =>
    out = Some(getMessageStep(args.code, args.locale) \in {1, 2})

\* C28: setLocale changes the current locale and leaves the override maps alone;
\* registerMessages(L, m) leaves the current locale and the override map of
\* every locale other than L alone; getMessage and hasMessage change nothing
\* of the provider; no operation changes the fallback locale or what a map
\* object supplied by a caller holds.  (The built-in tables are the constants
\* enMessages and viMessages: the code assigns to them nowhere.)
C28_MinimalEffects ==
  [][/\ fallbackLocale' = fallbackLocale
     /\ op' = "setLocale" =>
          /\ locale' = args'.locale
          /\ customMessages' = customMessages /\ stored' = stored
     /\ op' = "registerMessages" =>
          /\ locale' = locale
          /\ \A k \in Locales \ {args'.locale} :
               /\ (k \in DOMAIN customMessages') = (k \in DOMAIN customMessages)
               /\ k \in DOMAIN customMessages =>
                    (customMessages'[k] = customMessages[k] /\ stored'[k] = stored[k])
     /\ op' \in {"getMessage", "hasMessage"} =>
          /\ locale' = locale
          /\ customMessages' = customMessages /\ stored' = stored
     /\ \A i \in DOMAIN callerMaps : callerMaps'[i] = callerMaps[i]
     /\ \A i \in DOMAIN callerMaps' : callerMaps'[i] = history'[i].messages]_vars

\* C28 witness: the provider was constructed with a map for vi, a second map
\* was registered for vi, and the constructor's map object holds what it held.
C28_Witness ==
  /\ op = "registerMessages" /\ args.locale = "vi"
  /\ Len(history) = 2 /\ history[1].locale = "vi"
  /\ callerMaps[1] = history[1].messages
  /\ customMessages["vi"] # callerMaps[1]
  /\ stored["vi"] = 0
  /\ "en" \notin DOMAIN customMessages

\* C29: after any sequence of setLocale and registerMessages calls, with empty
\* texts among those registered, getMessage(code, locale?) is a non-empty string
\* for every code and locale, and so is every value a getMessage call returned.
C29_MessageNeverEmpty ==
  /\ \A code \in MessageCodes, loc \in Opt(Locales) : getMessage(code, loc) # ""
  /\ op = "getMessage" => out # Some("")

\* C29 witness: an empty text is registered for 9999 in the current locale and
\* getMessage(9999) returned that locale's unknown message.
C29_Witness ==
  /\ op = "getMessage" /\ args = [code |-> 9999, locale |-> None]
  /\ Lookup(customMessages, locale, 9999) = Some("")
  /\ locale = "vi"
  /\ out = Some("Loi khong xac dinh")

----------------------------------------------------------------------------
(* The range predicates of business-codes.ts                               *)

\* The codes classified run from -MaxBelow to MaxCode.
MaxBelow == 3

MaxCode == 8100

isSuccessCode(code) == code >= 0 /\ code < 100

\* isAuthError with <= 2000 for its upper end (mutant for C9).
isAuthErrorInclusive(code) == code >= 1000 /\ code <= 2000

isAuthError(code) == code >= 1000 /\ code < 2000

isUserError(code) == code >= 2000 /\ code < 3000

isValidationError(code) == code >= 3000 /\ code < 4000

isResourceError(code) == code >= 4000 /\ code < 5000

isSystemError(code) == code >= 5000 /\ code < 6000

isExternalError(code) == code >= 6000 /\ code < 7000

isBusinessLogicError(code) == code >= 7000 /\ code < 8000

\* The eight predicates applied to one code: the names of those that are true.
Classification(code) ==
  {p \in {"isSuccessCode", "isAuthError", "isUserError", "isValidationError",
          "isResourceError", "isSystemError", "isExternalError", "isBusinessLogicError"} :
     CASE p = "isSuccessCode" -> isSuccessCode(code)
       [] p = "isAuthError" -> isAuthError(code)
       [] p = "isUserError" -> isUserError(code)
       [] p = "isValidationError" -> isValidationError(code)
       [] p = "isResourceError" -> isResourceError(code)
       [] p = "isSystemError" -> isSystemError(code)
       [] p = "isExternalError" -> isExternalError(code)
       [] OTHER -> isBusinessLogicError(code)}

InitCodes ==
  /\ pc = "call"
  /\ op \in {"classify", "getHttpStatusMessage", "getBusinessCodeMessage"}
  /\ args \in [code : (-MaxBelow)..MaxCode \cup {9999}]
  /\ out = None
  /\ events = <<>>
  /\ json = <<>>
  /\ locale = "en"
  /\ fallbackLocale = "en"
  /\ customMessages = <<>>
  /\ history = <<>>
  /\ callerMaps = <<>>
  /\ stored = <<>>

\* The eight predicates are called with args.code.
Classify ==
  /\ pc = "call" /\ op = "classify"
  /\ pc' = "done"
  /\ out' = Some(Classification(args.code))
  /\ UNCHANGED <<op, args, events, json, i18nVars>>

GetHttpStatusMessageCall ==
  /\ pc = "call" /\ op = "getHttpStatusMessage"
  /\ Return(getHttpStatusMessage(args.code))

GetBusinessCodeMessageCall ==
  /\ pc = "call" /\ op = "getBusinessCodeMessage"
  /\ Return(getBusinessCodeMessage(args.code))

NextCodes ==
  \/ Classify
  \/ GetHttpStatusMessageCall
  \/ GetBusinessCodeMessageCall

SpecCodes == InitCodes /\ [][NextCodes]_vars

\* The eight ranges of the claim, each with the predicate it names.
RangeTable ==
  {<<0, 100, "isSuccessCode">>, <<1000, 2000, "isAuthError">>,
   <<2000, 3000, "isUserError">>, <<3000, 4000, "isValidationError">>,
   <<4000, 5000, "isResourceError">>, <<5000, 6000, "isSystemError">>,
   <<6000, 7000, "isExternalError">>, <<7000, 8000, "isBusinessLogicError">>}

\* C9: for every integer c, the predicates that are true of c are exactly the one
\* whose range [lo, hi) holds c, and none when c is in no range (c negative, in
\* [100, 1000), or c >= 8000); whether c has a message plays no part.
C9_ExactlyOneRange ==
  (pc = "done" /\ op = "classify") =>
    LET c == args.code
        holding == {r \in RangeTable : r[1] <= c /\ c < r[2]}
    IN /\ Cardinality(holding) <= 1
       /\ out[1] = {r[3] : r \in holding}
       /\ (c < 0 \/ (c >= 100 /\ c < 1000) \/ c >= 8000) => out[1] = {}

\* C9 witness: 2000, the boundary of two ranges and no code of the table, was
\* classified as a user error and as nothing else.
C9_Witness ==
  /\ pc = "done" /\ op = "classify"
  /\ args.code = 2000
  /\ out = Some({"isUserError"})

\* C24: getHttpStatusMessage and getBusinessCodeMessage return, for every
\* integer, a non-empty string: the description of the code when their table
\* has the code (200 is 'OK', 404 'Not Found', 2001 'User not found'), and
\* 'Unknown Status' and 'Unknown error' for every other integer, 999, 0 and -1
\* for the HTTP statuses and 9999 and -1 for the business codes among them.
C24_MessagesTotal ==
  /\ (pc = "done" /\ op = "getHttpStatusMessage") =>
       /\ out # Some("")
       /\ out = Some(IF args.code \in DOMAIN httpStatusMessages
                     THEN httpStatusMessages[args.code] ELSE "Unknown Status")
       /\ args.code = 200 => out = Some("OK")
       /\ args.code = 404 => out = Some("Not Found")
       /\ args.code \in {999, 0, -1} => out = Some("Unknown Status")
  /\ (pc = "done" /\ op = "getBusinessCodeMessage") =>
       /\ out # Some("")
       /\ out = Some(IF args.code \in DOMAIN businessCodeMessages
                     THEN businessCodeMessages[args.code] ELSE "Unknown error")
       /\ args.code = 2001 => out = Some("User not found")
       /\ args.code \in {9999, -1} => out = Some("Unknown error")

\* C24 witness: getHttpStatusMessage(999) returned 'Unknown Status'.
C24_Witness ==
  /\ pc = "done" /\ op = "getHttpStatusMessage"
  /\ args.code = 999
  /\ out = Some("Unknown Status")

----------------------------------------------------------------------------
(* The NestJS response interceptors (nestjs/interceptor.ts)                *)
(*                                                                         *)
(* A value a handler returns is undefined (None) or Some(object); an       *)
(* object has class "ApiResponse" (an instance, fields holding its fields),*)
(* "Object" or "null", and ref, its identity.  The options object of a     *)
(* constructor is a function from the keys it has to their values, None    *)
(* standing for a key given as undefined.                                  *)

\* The object a handler returns or an interceptor creates.
Object(class, ref, fields) == [class |-> class, ref |-> ref, fields |-> fields]

\* An ApiResponse instance the interceptor creates.
NewEnvelope(fields) == Object("ApiResponse", "new", Some(fields))

\* data instanceof ApiResponse
IsApiResponse(data) == data # None /\ data[1].class = "ApiResponse"

\* The constructors: this.options = { defaultMessage: 'Success', skipIfWrapped: true, ...options }
InterceptorOptions(options) ==
  Spread([defaultMessage |-> Some("Success"), skipIfWrapped |-> Some(TRUE)], options)

\* intercept with the defaultMessage option ignored (mutant for C18).
InterceptFixedMessage(options, statusCode, data) ==
  IF InterceptorOptions(options).skipIfWrapped = Some(TRUE) /\ IsApiResponse(data)
  THEN data
  ELSE IF statusCode = HttpStatus_NO_CONTENT
       THEN Some(NewEnvelope(NoContent(None)))
       ELSE Some(NewEnvelope(Success(SuccessParams(data, Some("Success"),
                                                   Some(statusCode), None))))

\* ApiResponseInterceptor.intercept: the function mapped over what the handler
\* emits.  statusCode is response.statusCode.
Intercept(options, statusCode, data) ==
  IF InterceptorOptions(options).skipIfWrapped = Some(TRUE) /\ IsApiResponse(data)
  THEN data
  ELSE IF statusCode = HttpStatus_NO_CONTENT
       THEN Some(NewEnvelope(NoContent(None)))
       ELSE Some(NewEnvelope(Success(SuccessParams(data,
                                                   InterceptorOptions(options).defaultMessage,
                                                   Some(statusCode), None))))

\* interceptAdvanced testing the 204 status before the marker (mutant for C19).
InterceptAdvancedStatusFirst(options, statusCode, data, skipTransform) ==
  IF statusCode = HttpStatus_NO_CONTENT
  THEN Some(NewEnvelope(NoContent(None)))
  ELSE IF skipTransform = Some(TRUE)
       THEN data
       ELSE IF InterceptorOptions(options).skipIfWrapped = Some(TRUE) /\ IsApiResponse(data)
            THEN data
            ELSE Some(NewEnvelope(Success(SuccessParams(data,
                                            InterceptorOptions(options).defaultMessage,
                                            Some(statusCode), None))))

\* ApiResponseInterceptorAdvanced.intercept; skipTransform is the metadata
\* Reflect.getMetadata(SKIP_API_RESPONSE_KEY, handler) returns.
InterceptAdvanced(options, statusCode, data, skipTransform) ==
  IF skipTransform = Some(TRUE)
  THEN data
  ELSE IF InterceptorOptions(options).skipIfWrapped = Some(TRUE) /\ IsApiResponse(data)
       THEN data
       ELSE IF statusCode = HttpStatus_NO_CONTENT
            THEN Some(NewEnvelope(NoContent(None)))
            ELSE Some(NewEnvelope(Success(SuccessParams(data,
                                            InterceptorOptions(options).defaultMessage,
                                            Some(statusCode), None))))

\* What a handler returns: undefined, a plain object, null, or an envelope.
HandlerValues ==
  Opt({Object("Object", "o1", None),
       Object("null", "null", None),
       Object("ApiResponse", "r1", Some(Success(SuccessParams(Some("d1"), None, None, None)))),
       Object("ApiResponse", "r2", Some(NotFound(None, None)))})

\* The options objects given to the constructors.
InterceptorOptionsValues ==
  {[k \in K |-> [defaultMessage |-> m, skipIfWrapped |-> w][k]] :
     K \in SUBSET {"defaultMessage", "skipIfWrapped"},
     m \in Opt({"Done", ""}), w \in Opt(BOOLEAN)}

\* response.statusCode when the handler's value is mapped.
ResponseStatuses == {HttpStatus_OK, HttpStatus_CREATED, HttpStatus_NO_CONTENT}

InitInterceptor ==
  /\ pc = "call"
  /\ \/ /\ op = "intercept"
        /\ args \in [options : InterceptorOptionsValues, statusCode : ResponseStatuses,
                     data : HandlerValues]
     \/ /\ op = "interceptAdvanced"
        /\ args \in [options : InterceptorOptionsValues, statusCode : ResponseStatuses,
                     data : HandlerValues, skipTransform : Opt(BOOLEAN)]
  /\ out = None
  /\ events = <<>>
  /\ json = <<>>
  /\ locale = "en"
  /\ fallbackLocale = "en"
  /\ customMessages = <<>>
  /\ history = <<>>
  /\ callerMaps = <<>>
  /\ stored = <<>>

\* The handler emits args.data and ApiResponseInterceptor maps it.
InterceptCall ==
  /\ pc = "call" /\ op = "intercept"
  /\ Return(Intercept(args.options, args.statusCode, args.data))

\* The handler emits args.data and ApiResponseInterceptorAdvanced maps it, or
\* passes it on.
InterceptAdvancedCall ==
  /\ pc = "call" /\ op = "interceptAdvanced"
  /\ Return(InterceptAdvanced(args.options, args.statusCode, args.data, args.skipTransform))

NextInterceptor ==
  \/ InterceptCall
  \/ InterceptAdvancedCall

SpecInterceptor == InitInterceptor /\ [][NextInterceptor]_vars

\* The value the interceptor emitted.
Emitted == out[1]

\* The route carries the skipApiResponse marker.
Marked == op = "interceptAdvanced" /\ args.skipTransform = Some(TRUE)

\* v is a new envelope whose fields are those noContent() returns.
IsNoContent(v) ==
  /\ IsApiResponse(v)
  /\ v[1].fields[1] = [success |-> TRUE, data |-> None, message |-> Some("No content"),
                       statusCode |-> Some(204), meta |-> None, error |-> None]

\* v is a success envelope with the given data, message and statusCode.
IsSuccessOf(v, data, message, statusCode) ==
  /\ IsApiResponse(v)
  /\ v[1].fields[1] = [success |-> TRUE, data |-> data, message |-> Some(message),
                       statusCode |-> Some(statusCode), meta |-> None, error |-> None]

\* C17: in both interceptors (the route not carrying the marker), when the
\* response status is 204 the emitted value is noContent(), whatever the
\* handler returned and whatever skipIfWrapped is.
C17_NoContentOn204 ==
  (pc = "done" /\ op \in {"intercept", "interceptAdvanced"} /\ ~Marked
     /\ args.statusCode = 204)
  => IsNoContent(Emitted)

\* The 204 rule of C17 for the values that are not passed through: when the
\* status is 204 and the handler's value is no ApiResponse, or skipIfWrapped is
\* false, the emitted value is noContent().
C17_NoContentUnlessPassedThrough ==
  (pc = "done" /\ op \in {"intercept", "interceptAdvanced"} /\ ~Marked
     /\ args.statusCode = 204
     /\ (~IsApiResponse(args.data)
           \/ ("skipIfWrapped" \in DOMAIN args.options
                 /\ args.options.skipIfWrapped = Some(FALSE))))
  => IsNoContent(Emitted)

\* The defaultMessage the options configure: the option when given, else 'Success'.
ConfiguredMessage(options) ==
  IF "defaultMessage" \in DOMAIN options /\ options.defaultMessage # None
  THEN options.defaultMessage[1]
  ELSE "Success"

\* C18: for a status other than 204, ApiResponseInterceptor emits, for a handler
\* value that is no ApiResponse, a success envelope with data that value, message
\* the configured defaultMessage ('Success' by default) and statusCode the
\* response status; for an ApiResponse it emits the identical object when
\* skipIfWrapped is true or not given, and a new success envelope with the
\* ApiResponse as data when skipIfWrapped is false.
C18_WrapsUnlessEnvelope ==
  (pc = "done" /\ op = "intercept" /\ args.statusCode # 204) =>
    LET wrapped == IsSuccessOf(Emitted, args.data, ConfiguredMessage(args.options),
                               args.statusCode)
                   /\ Emitted[1].ref = "new"
    IN /\ ~IsApiResponse(args.data) => wrapped
       /\ (IsApiResponse(args.data) /\ "skipIfWrapped" \notin DOMAIN args.options)
            => Emitted = args.data
       /\ (IsApiResponse(args.data) /\ "skipIfWrapped" \in DOMAIN args.options) =>
            /\ args.options.skipIfWrapped = Some(TRUE) => Emitted = args.data
            /\ args.options.skipIfWrapped = Some(FALSE) => wrapped

\* C18 witness: with skipIfWrapped false and defaultMessage 'Done', an
\* ApiResponse returned under status 201 was wrapped as the data of a new
\* envelope.
C18_Witness ==
  /\ pc = "done" /\ op = "intercept"
  /\ args.statusCode = 201
  /\ args.options = [defaultMessage |-> Some("Done"), skipIfWrapped |-> Some(FALSE)]
  /\ IsApiResponse(args.data) /\ args.data[1].ref = "r1"
  /\ IsSuccessOf(Emitted, args.data, "Done", 201)

\* C19: ApiResponseInterceptorAdvanced emits the handler's value itself when the
\* route carries the skipApiResponse marker, whatever the value, the status (204
\* included) and the options; without the marker it emits what
\* ApiResponseInterceptor emits for the same options, status and value.
C19_MarkerSuppressesWrapping ==
  (pc = "done" /\ op = "interceptAdvanced") =>
    IF args.skipTransform = Some(TRUE)
    THEN Emitted = args.data
    ELSE Emitted = Intercept(args.options, args.statusCode, args.data)

\* C19 witness: on a marked route with status 204 the handler's plain object was
\* emitted as it was.
C19_Witness ==
  /\ pc = "done" /\ Marked
  /\ args.statusCode = 204
  /\ args.data # None /\ args.data[1].class = "Object"
  /\ Emitted = args.data

----------------------------------------------------------------------------
(* parsePagination (Next.js helpers)                                       *)
(*                                                                         *)
(* A string is a sequence of one-character strings.  A JavaScript number   *)
(* is a record: NaN, or Num(v) for the integer v.                          *)

\* The query texts are the strings of at most MaxChars characters of QueryChars.
MaxChars == 2

NaN == [nan |-> TRUE, val |-> 0]

Num(v) == [nan |-> FALSE, val |-> v]

\* Math.max and Math.min of two numbers: NaN when either is NaN.
MathMax(a, b) ==
  IF a.nan \/ b.nan THEN NaN ELSE IF a.val >= b.val THEN a ELSE b

MathMin(a, b) ==
  IF a.nan \/ b.nan THEN NaN ELSE IF a.val <= b.val THEN a ELSE b

DigitChars == <<"0", "1", "2", "3", "4", "5", "6", "7", "8", "9">>

IsDigit(ch) == \E d \in DOMAIN DigitChars : DigitChars[d] = ch

DigitValue(ch) == (CHOOSE d \in DOMAIN DigitChars : DigitChars[d] = ch) - 1

\* String(n) for an integer n: its decimal digits, after a minus sign when n < 0.
RECURSIVE NumberToString(_)
NumberToString(n) ==
  IF n < 0 THEN <<"-">> \o NumberToString(-n)
  ELSE IF n < 10 THEN <<DigitChars[n + 1]>>
  ELSE NumberToString(n \div 10) \o <<DigitChars[(n % 10) + 1]>>

\* The longest prefix of s made of digits.
RECURSIVE DigitPrefix(_)
DigitPrefix(s) ==
  IF s = <<>> \/ ~IsDigit(Head(s)) THEN <<>>
  ELSE <<Head(s)>> \o DigitPrefix(Tail(s))

\* The value of a sequence of digits.
RECURSIVE DigitsValue(_)
DigitsValue(ds) ==
  IF ds = <<>> THEN 0
  ELSE 10 * DigitsValue(SubSeq(ds, 1, Len(ds) - 1)) + DigitValue(ds[Len(ds)])

\* s without its leading white space.
RECURSIVE TrimStart(_)
TrimStart(s) ==
  IF s # <<>> /\ Head(s) = " " THEN TrimStart(Tail(s)) ELSE s

\* parseInt(s, 10): leading white space is skipped, a sign is read, then the
\* longest run of digits; NaN when there is no digit there.
parseInt(s) ==
  LET t == TrimStart(s)
      signed == t # <<>> /\ Head(t) \in {"-", "+"}
      digits == DigitPrefix(IF signed THEN Tail(t) ELSE t)
  IN IF digits = <<>> THEN NaN
     ELSE IF signed /\ Head(t) = "-" THEN Num(-DigitsValue(digits))
     ELSE Num(DigitsValue(digits))

\* url.searchParams.get(name) || String(default): the default's text when the
\* parameter is missing (None) or empty.
ParamText(value, default) ==
  IF value = None \/ value = Some(<<>>) THEN NumberToString(default) ELSE value[1]

\* parsePagination(request, options): query holds the page and limit parameters
\* of request.url.
parsePagination(query, options) ==
  LET defaultPage == Nullish(options.defaultPage, 1)
      defaultLimit == Nullish(options.defaultLimit, 10)
      maxLimit == Nullish(options.maxLimit, 100)
  IN [page  |-> MathMax(Num(1), parseInt(ParamText(query.page, defaultPage))),
      limit |-> MathMin(Num(maxLimit),
                        MathMax(Num(1), parseInt(ParamText(query.limit, defaultLimit))))]

QueryChars == {"-", "0", "5", "a"}

\* The values of a query parameter: missing, every string of at most MaxChars
\* characters, and '500'.
QueryTexts ==
  Opt(UNION {[1..n -> QueryChars] : n \in 0..MaxChars} \cup {<<"5", "0", "0">>})

PaginationOptions ==
  [defaultPage : Opt({0, 5}), defaultLimit : Opt({50, 500}), maxLimit : Opt({1, 20})]

InitPagination ==
  /\ pc = "call"
  /\ op = "parsePagination"
  /\ args \in [query : [page : QueryTexts, limit : QueryTexts], options : PaginationOptions]
  /\ out = None
  /\ events = <<>>
  /\ json = <<>>
  /\ locale = "en"
  /\ fallbackLocale = "en"
  /\ customMessages = <<>>
  /\ history = <<>>
  /\ callerMaps = <<>>
  /\ stored = <<>>

ParsePaginationCall ==
  /\ pc = "call" /\ op = "parsePagination"
  /\ Return(parsePagination(args.query, args.options))

NextPagination == ParsePaginationCall

SpecPagination == InitPagination /\ [][NextPagination]_vars

Parsed == pc = "done" /\ op = "parsePagination"

\* x is an integer n with lo <= n <= hi.
IntegerWithin(x, lo, hi) == ~x.nan /\ lo <= x.val /\ x.val <= hi

NoOptions == [defaultPage |-> None, defaultLimit |-> None, maxLimit |-> None]

\* C20: for maxLimit >= 1 and every query, parsePagination returns an integer
\* page >= 1 and an integer limit with 1 <= limit <= maxLimit; with no options,
\* missing parameters give page 1 and limit 10, page=-5&limit=0 gives page 1 and
\* limit 1, and limit=500 gives limit 100.
C20_PaginationInRange ==
  Parsed =>
    LET maxLimit == Nullish(args.options.maxLimit, 100)
        r == out[1]
    IN /\ ~r.page.nan /\ r.page.val >= 1
       /\ IntegerWithin(r.limit, 1, maxLimit)
       /\ args.options = NoOptions =>
            /\ args.query.page = None => r.page = Num(1)
            /\ args.query.limit = None => r.limit = Num(10)
            /\ args.query.page = Some(<<"-", "5">>) => r.page = Num(1)
            /\ args.query.limit = Some(<<"0">>) => r.limit = Num(1)
            /\ args.query.limit = Some(<<"5", "0", "0">>) => r.limit = Num(100)

\* The range of C20 for the queries whose page and limit texts, after the
\* defaults are filled in, begin with a number.
C20_NumericTextsInRange ==
  (Parsed
     /\ ~parseInt(ParamText(args.query.page, Nullish(args.options.defaultPage, 1))).nan
     /\ ~parseInt(ParamText(args.query.limit, Nullish(args.options.defaultLimit, 10))).nan)
  => /\ ~out[1].page.nan /\ out[1].page.val >= 1
     /\ IntegerWithin(out[1].limit, 1, Nullish(args.options.maxLimit, 100))

----------------------------------------------------------------------------
(* Typed exceptions and the Next.js route helpers                          *)

\* new ValidationException(details, message?)
ValidationException(details, message, stack) ==
  BusinessException(BusinessCode_VALIDATION_ERROR,
                    Some(Nullish(message, "Validation failed")),
                    Some(HttpStatus_UNPROCESSABLE_ENTITY), details, stack)

\* new AuthException(businessCode = AUTH_FAILED, message?)
AuthException(businessCode, message, stack) ==
  BusinessException(Nullish(businessCode, BusinessCode_AUTH_FAILED), message,
                    Some(HttpStatus_UNAUTHORIZED), None, stack)

\* new ForbiddenException(message?)
ForbiddenException(message, stack) ==
  BusinessException(BusinessCode_PERMISSION_DENIED,
                    Some(Nullish(message, "Access denied")),
                    Some(HttpStatus_FORBIDDEN), None, stack)

\* new NotFoundException(message?, businessCode = RESOURCE_NOT_FOUND)
NotFoundException(message, businessCode, stack) ==
  BusinessException(Nullish(businessCode, BusinessCode_RESOURCE_NOT_FOUND),
                    Some(Nullish(message, "Resource not found")),
                    Some(HttpStatus_NOT_FOUND), None, stack)

\* new ConflictException(message?, businessCode = RESOURCE_CONFLICT)
ConflictException(message, businessCode, stack) ==
  BusinessException(Nullish(businessCode, BusinessCode_RESOURCE_CONFLICT),
                    Some(Nullish(message, "Resource conflict")),
                    Some(HttpStatus_CONFLICT), None, stack)

\* new RateLimitException(message?)
RateLimitException(message, stack) ==
  BusinessException(BusinessCode_RATE_LIMIT_EXCEEDED,
                    Some(Nullish(message, "Too many requests")),
                    Some(HttpStatus_TOO_MANY_REQUESTS), None, stack)

\* new InternalServerException(message?, businessCode = INTERNAL_ERROR)
InternalServerException(message, businessCode, stack) ==
  BusinessException(Nullish(businessCode, BusinessCode_INTERNAL_ERROR),
                    Some(Nullish(message, "Internal server error")),
                    Some(HttpStatus_INTERNAL_SERVER_ERROR), None, stack)

\* new BadRequestException(message?, businessCode = INVALID_INPUT)
BadRequestException(message, businessCode, stack) ==
  BusinessException(Nullish(businessCode, BusinessCode_INVALID_INPUT),
                    Some(Nullish(message, "Bad request")),
                    Some(HttpStatus_BAD_REQUEST), None, stack)

\* new ServiceUnavailableException(message?, businessCode = SERVICE_UNAVAILABLE)
ServiceUnavailableException(message, businessCode, stack) ==
  BusinessException(Nullish(businessCode, BusinessCode_SERVICE_UNAVAILABLE),
                    Some(Nullish(message, "Service unavailable")),
                    Some(HttpStatus_SERVICE_UNAVAILABLE), None, stack)

\* jsonError(message, statusCode = 500, businessCode = INTERNAL_ERROR, details?):
\* Response.json(ApiResponse.error(...), { status: statusCode }).  A Response is
\* its status and its body, the envelope as JSON.stringify sees it (toJSON).
\* The headers and statusText of options touch neither and are left out.
jsonError(message, statusCode, businessCode, details) ==
  LET status == Nullish(statusCode, HttpStatus_INTERNAL_SERVER_ERROR)
      apiResponse ==
        Error(ErrorParams(Some(message),
                          Some(Nullish(businessCode, BusinessCode_INTERNAL_ERROR)),
                          Some(status), details))
  IN [status |-> status, body |-> toJSON(apiResponse)]

\* jsonBadRequest(message = 'Bad request', details?)
jsonBadRequest(message, details) ==
  jsonError(Nullish(message, "Bad request"), Some(HttpStatus_BAD_REQUEST),
            Some(BusinessCode_INVALID_INPUT), details)

\* jsonUnauthorized(message = 'Unauthorized', businessCode = AUTH_FAILED)
jsonUnauthorized(message, businessCode) ==
  jsonError(Nullish(message, "Unauthorized"), Some(HttpStatus_UNAUTHORIZED),
            Some(Nullish(businessCode, BusinessCode_AUTH_FAILED)), None)

\* jsonForbidden with the business code of jsonUnauthorized (mutant for C27).
jsonForbiddenAuthFailed(message) ==
  jsonError(Nullish(message, "Forbidden"), Some(HttpStatus_FORBIDDEN),
            Some(BusinessCode_AUTH_FAILED), None)

\* jsonForbidden(message = 'Forbidden')
jsonForbidden(message) ==
  jsonError(Nullish(message, "Forbidden"), Some(HttpStatus_FORBIDDEN),
            Some(BusinessCode_PERMISSION_DENIED), None)

\* jsonNotFound(message = 'Not found', businessCode = RESOURCE_NOT_FOUND)
jsonNotFound(message, businessCode) ==
  jsonError(Nullish(message, "Not found"), Some(HttpStatus_NOT_FOUND),
            Some(Nullish(businessCode, BusinessCode_RESOURCE_NOT_FOUND)), None)

\* jsonConflict(message = 'Conflict', businessCode = RESOURCE_CONFLICT)
jsonConflict(message, businessCode) ==
  jsonError(Nullish(message, "Conflict"), Some(HttpStatus_CONFLICT),
            Some(Nullish(businessCode, BusinessCode_RESOURCE_CONFLICT)), None)

\* jsonValidationError(details, message = 'Validation failed')
jsonValidationError(details, message) ==
  jsonError(Nullish(message, "Validation failed"), Some(HttpStatus_UNPROCESSABLE_ENTITY),
            Some(BusinessCode_VALIDATION_ERROR), details)

\* jsonTooManyRequests(message = 'Too many requests')
jsonTooManyRequests(message) ==
  jsonError(Nullish(message, "Too many requests"), Some(HttpStatus_TOO_MANY_REQUESTS),
            Some(BusinessCode_RATE_LIMIT_EXCEEDED), None)

\* jsonInternalError(message = 'Internal server error')
jsonInternalError(message) ==
  jsonError(Nullish(message, "Internal server error"),
            Some(HttpStatus_INTERNAL_SERVER_ERROR),
            Some(BusinessCode_INTERNAL_ERROR), None)

\* parseBody that lets the failure of request.json() through (mutant for C21).
parseBodyPropagating(request) ==
  IF request.json.settles = "resolves"
  THEN [state |-> "fulfilled", value |-> [data |-> request.json.value]]
  ELSE [state |-> "rejected", value |-> [reason |-> request.json.value]]

\* parseBody(request): the promise it returns.  request.json is how
\* request.json() settles: it resolves with the parsed value, or rejects (the
\* body is no JSON text, is empty, or was read before).
parseBody(request) ==
  IF request.json.settles = "resolves"
  THEN [state |-> "fulfilled", value |-> [data |-> request.json.value]]
  ELSE [state |-> "fulfilled",
        value |-> [error |-> jsonBadRequest(Some("Invalid JSON body"), None)]]

\* withErrorHandler answering a BusinessException with the exception's own
\* status and code (mutant for C22).
withErrorHandlerOwnStatus(handler, request, context) ==
  LET called == <<[type |-> "handler", request |-> request, context |-> context]>>
      error == handler.value
      logged == <<[type |-> "console.error", error |-> error]>>
  IN IF handler.settles = "resolves"
     THEN [events |-> called,
           promise |-> [state |-> "fulfilled", value |-> handler.value]]
     ELSE [events |-> called \o logged,
           promise |->
             [state |-> "fulfilled",
              value |-> IF error.kind = "business"
                        THEN jsonError(error.message[1], error.statusCode,
                                       error.businessCode, None)
                        ELSE IF error.kind # "other"
                        THEN jsonInternalError(error.message)
                        ELSE jsonInternalError(Some("An unexpected error occurred"))]]

\* The function withErrorHandler(handler) returns, called with (request,
\* context): the calls it makes and the promise it returns.  handler is how
\* the wrapped handler settles when called: it resolves with a Response, or it
\* throws or rejects with a value.
withErrorHandler(handler, request, context) ==
  LET called == <<[type |-> "handler", request |-> request, context |-> context]>>
      error == handler.value
      logged == <<[type |-> "console.error", error |-> error]>>
  IN IF handler.settles = "resolves"
     THEN [events |-> called,
           promise |-> [state |-> "fulfilled", value |-> handler.value]]
     ELSE [events |-> called \o logged,
           promise |->
             [state |-> "fulfilled",
              value |-> IF error.kind # "other"
                        THEN jsonInternalError(error.message)
                        ELSE jsonInternalError(Some("An unexpected error occurred"))]]

\* How request.json() settles.
RequestBodies ==
  {[settles |-> "resolves", value |-> v] : v \in {"object", "null", "0", "false"}}
  \cup {[settles |-> "rejects", value |-> r] : r \in {"SyntaxError", "TypeError"}}

\* How a wrapped handler settles: with a response, or with a thrown value.
HandlerOutcomes ==
  {[settles |-> "resolves", value |-> r] :
     r \in {[status |-> HttpStatus_OK, body |-> toJSON(Success(Absent))],
            jsonNotFound(None, None)}}
  \cup {[settles |-> s, value |-> e] :
     s \in {"throws", "rejects"},
     e \in {GenericError(m, Some("stack1")) : m \in Messages}
           \cup {BusinessException(BusinessCode_USER_NOT_FOUND, m, Some(HttpStatus_NOT_FOUND),
                                   None, Some("stack1")) : m \in Opt({"m1"})}
           \cup {NotFoundException(None, None, Some("stack1")),
                 HttpException([type |-> "string", text |-> "plain text",
                                isArray |-> FALSE, message |-> None],
                               HttpStatus_FORBIDDEN, "Http Exception", Some("stack1"))}
           \cup {OtherValue(v) : v \in {"string", "null", "undefined", "object"}}}

JsonShorthands ==
  {"jsonBadRequest", "jsonUnauthorized", "jsonForbidden", "jsonNotFound", "jsonConflict",
   "jsonValidationError", "jsonTooManyRequests", "jsonInternalError"}

ExceptionClasses ==
  {"ValidationException", "AuthException", "ForbiddenException", "NotFoundException",
   "ConflictException", "RateLimitException", "InternalServerException",
   "BadRequestException", "ServiceUnavailableException"}

InitNextjs ==
  /\ pc = "call"
  /\ \/ op = "jsonBadRequest" /\ args \in [message : Opt(Messages), details : Opt(DetailsValues)]
     \/ op \in {"jsonUnauthorized", "jsonNotFound", "jsonConflict"}
          /\ args \in [message : Opt(Messages), businessCode : Opt(Codes)]
     \/ op \in {"jsonForbidden", "jsonTooManyRequests", "jsonInternalError"}
          /\ args \in [message : Opt(Messages)]
     \/ op = "jsonValidationError"
          /\ args \in [details : Opt(DetailsValues), message : Opt(Messages)]
     \/ op = "ValidationException"
          /\ args \in [details : Opt(DetailsValues), message : Opt(Messages), stack : Stacks]
     \/ op \in {"ForbiddenException", "RateLimitException"}
          /\ args \in [message : Opt(Messages), stack : Stacks]
     \/ op \in ExceptionClasses \ {"ValidationException", "ForbiddenException",
                                   "RateLimitException"}
          /\ args \in [message : Opt(Messages), businessCode : Opt(Codes), stack : Stacks]
     \/ op = "parseBody" /\ args \in [request : [json : RequestBodies]]
     \/ op = "withErrorHandler"
          /\ args \in [handler : HandlerOutcomes, request : {"request1", "request2"},
                       context : Opt({"context1"})]
  /\ out = None
  /\ events = <<>>
  /\ json = <<>>
  /\ locale = "en"
  /\ fallbackLocale = "en"
  /\ customMessages = <<>>
  /\ history = <<>>
  /\ callerMaps = <<>>
  /\ stored = <<>>

\* A call of one json* shorthand.
JsonShorthandCall ==
  /\ pc = "call" /\ op \in JsonShorthands
  /\ \/ op = "jsonBadRequest" /\ Return(jsonBadRequest(args.message, args.details))
     \/ op = "jsonUnauthorized" /\ Return(jsonUnauthorized(args.message, args.businessCode))
     \/ op = "jsonForbidden" /\ Return(jsonForbidden(args.message))
     \/ op = "jsonNotFound" /\ Return(jsonNotFound(args.message, args.businessCode))
     \/ op = "jsonConflict" /\ Return(jsonConflict(args.message, args.businessCode))
     \/ op = "jsonValidationError" /\ Return(jsonValidationError(args.details, args.message))
     \/ op = "jsonTooManyRequests" /\ Return(jsonTooManyRequests(args.message))
     \/ op = "jsonInternalError" /\ Return(jsonInternalError(args.message))

\* The construction of one typed exception.
NewException ==
  /\ pc = "call" /\ op \in ExceptionClasses
  /\ \/ op = "ValidationException"
          /\ Return(ValidationException(args.details, args.message, args.stack))
     \/ op = "AuthException"
          /\ Return(AuthException(args.businessCode, args.message, args.stack))
     \/ op = "ForbiddenException" /\ Return(ForbiddenException(args.message, args.stack))
     \/ op = "NotFoundException"
          /\ Return(NotFoundException(args.message, args.businessCode, args.stack))
     \/ op = "ConflictException"
          /\ Return(ConflictException(args.message, args.businessCode, args.stack))
     \/ op = "RateLimitException" /\ Return(RateLimitException(args.message, args.stack))
     \/ op = "InternalServerException"
          /\ Return(InternalServerException(args.message, args.businessCode, args.stack))
     \/ op = "BadRequestException"
          /\ Return(BadRequestException(args.message, args.businessCode, args.stack))
     \/ op = "ServiceUnavailableException"
          /\ Return(ServiceUnavailableException(args.message, args.businessCode, args.stack))

ParseBodyCall ==
  /\ pc = "call" /\ op = "parseBody"
  /\ Return(parseBody(args.request))

WithErrorHandlerCall ==
  /\ pc = "call" /\ op = "withErrorHandler"
  /\ LET r == withErrorHandler(args.handler, args.request, args.context)
     IN /\ pc' = "done"
        /\ out' = Some(r.promise)
        /\ events' = r.events
  /\ UNCHANGED <<op, args, json, i18nVars>>

NextNextjs ==
  \/ JsonShorthandCall
  \/ NewException
  \/ ParseBodyCall
  \/ WithErrorHandlerCall

SpecNextjs == InitNextjs /\ [][NextNextjs]_vars

\* The statuses every one of the four places pins to a business code.
PinnedStatuses ==
  {HttpStatus_BAD_REQUEST, HttpStatus_UNAUTHORIZED, HttpStatus_FORBIDDEN,
   HttpStatus_NOT_FOUND, HttpStatus_CONFLICT, HttpStatus_UNPROCESSABLE_ENTITY,
   HttpStatus_TOO_MANY_REQUESTS, HttpStatus_INTERNAL_SERVER_ERROR}

\* The envelope of the ApiResponse shorthand of status s, called with defaults.
ApiShorthandDefault(s) ==
  CASE s = HttpStatus_BAD_REQUEST -> BadRequest(None, None)
    [] s = HttpStatus_UNAUTHORIZED -> Unauthorized(None, None)
    [] s = HttpStatus_FORBIDDEN -> Forbidden(None)
    [] s = HttpStatus_NOT_FOUND -> NotFound(None, None)
    [] s = HttpStatus_CONFLICT -> Conflict(None, None)
    [] s = HttpStatus_UNPROCESSABLE_ENTITY -> ValidationError(Some("details1"), None)
    [] s = HttpStatus_TOO_MANY_REQUESTS -> TooManyRequests(None)
    [] s = HttpStatus_INTERNAL_SERVER_ERROR -> InternalError(None)

\* The call left every optional argument out (details of the validation
\* shorthands is required, and the stack is no argument).
DefaultArguments ==
  \A k \in DOMAIN args \ {"details", "stack"} : args[k] = None

\* C27: a json* shorthand or a typed exception made with default arguments
\* carries one of the statuses 400, 401, 403, 404, 409, 422, 429, 500 (or 503,
\* for ServiceUnavailableException), and its business code is the one
\* mapHttpStatusToBusinessCode gives for that status and, for every status but
\* 503, the one the ApiResponse shorthand of that status gives; a json*
\* shorthand also carries the default message of that ApiResponse shorthand.
C27_PinnedCodesAgree ==
  (pc = "done" /\ op \in JsonShorthands \cup ExceptionClasses /\ DefaultArguments) =>
    LET s == IF op \in JsonShorthands THEN out[1].status ELSE out[1].statusCode[1]
        code == IF op \in JsonShorthands THEN out[1].body.error.code[1]
                ELSE out[1].businessCode[1]
    IN /\ s \in PinnedStatuses \cup {HttpStatus_SERVICE_UNAVAILABLE}
       /\ (s = HttpStatus_SERVICE_UNAVAILABLE) <=> (op = "ServiceUnavailableException")
       /\ code = mapHttpStatusToBusinessCode(s)
       /\ s \in PinnedStatuses =>
            /\ ApiShorthandDefault(s).statusCode = Some(s)
            /\ code = ApiShorthandDefault(s).error[1].code[1]
            /\ op \in JsonShorthands =>
                 /\ out[1].body.statusCode = s
                 /\ out[1].body.message = ApiShorthandDefault(s).message[1]

\* C27 witness: jsonForbidden() with no argument answered 403 with
\* PERMISSION_DENIED and the message 'Forbidden'.
C27_Witness ==
  /\ pc = "done" /\ op = "jsonForbidden" /\ args.message = None
  /\ out[1].status = 403
  /\ out[1].body.error.code = Some(1007)
  /\ out[1].body.message = "Forbidden"

\* C21: parseBody returns a promise that is fulfilled, never rejected.  When
\* request.json() resolves the value is {data} alone, data being the parsed
\* value; when it rejects the value is {error} alone, error being a response
\* of status 400 whose body is an error envelope with statusCode 400, code
\* INVALID_INPUT and message 'Invalid JSON body'.
C21_ParseBodyNeverThrows ==
  (pc = "done" /\ op = "parseBody") =>
    /\ out[1].state = "fulfilled"
    /\ LET r == out[1].value IN
       IF args.request.json.settles = "resolves"
       THEN /\ DOMAIN r = {"data"}
            /\ r.data = args.request.json.value
       ELSE /\ DOMAIN r = {"error"}
            /\ r.error.status = HttpStatus_BAD_REQUEST
            /\ r.error.body.success = FALSE
            /\ r.error.body.statusCode = HttpStatus_BAD_REQUEST
            /\ r.error.body.error.code = Some(BusinessCode_INVALID_INPUT)
            /\ r.error.body.message = "Invalid JSON body"

\* C21 witness: request.json() rejected and parseBody resolved to {error}
\* with a 400 response.
C21_Witness ==
  /\ pc = "done" /\ op = "parseBody"
  /\ args.request.json.settles = "rejects"
  /\ out[1].state = "fulfilled"
  /\ "error" \in DOMAIN out[1].value
  /\ out[1].value.error.status = 400

\* r is a 500 response whose body is an INTERNAL_ERROR envelope with message m.
InternalErrorResponse(r, m) ==
  /\ r.status = HttpStatus_INTERNAL_SERVER_ERROR
  /\ r.body.success = FALSE
  /\ r.body.statusCode = HttpStatus_INTERNAL_SERVER_ERROR
  /\ r.body.error.code = Some(BusinessCode_INTERNAL_ERROR)
  /\ r.body.message = m

\* C22: the wrapper returns a promise that is fulfilled, never rejected; it
\* calls the wrapped handler exactly once, with the request and context it was
\* given; when the handler resolves the value is the handler's response, as it
\* is; when the handler throws or rejects with an Error (a BusinessException
\* with its own status and code included) the value is a 500 / INTERNAL_ERROR
\* response whose message is the error's message; when it throws any other
\* value the message is 'An unexpected error occurred'.
C22_WrapperNeverRejects ==
  (pc = "done" /\ op = "withErrorHandler") =>
    LET handler == args.handler
        calls == SelectSeq(events, LAMBDA e : e.type = "handler")
    IN /\ out[1].state = "fulfilled"
       /\ calls = <<[type |-> "handler", request |-> args.request, context |-> args.context]>>
       /\ IF handler.settles = "resolves"
          THEN out[1].value = handler.value
          ELSE IF handler.value.kind # "other"
          THEN InternalErrorResponse(out[1].value, handler.value.message[1])
          ELSE InternalErrorResponse(out[1].value, "An unexpected error occurred")

\* C22 witness: the handler threw a BusinessException of status 404 and code
\* USER_NOT_FOUND, and the wrapper answered 500 / INTERNAL_ERROR with the
\* exception's message.
C22_Witness ==
  /\ pc = "done" /\ op = "withErrorHandler"
  /\ args.handler.settles = "throws"
  /\ args.handler.value.kind = "business"
  /\ args.handler.value.statusCode = Some(404)
  /\ args.handler.value.businessCode = Some(2001)
  /\ out[1].value.status = 500
  /\ out[1].value.body.error.code = Some(5001)
  /\ out[1].value.body.message = args.handler.value.message[1]

----------------------------------------------------------------------------
(* React: BusinessMessageProvider component and useBusinessMessage         *)

\* At most MaxProviders BusinessMessageProvider components enclose the caller.
MaxProviders == 2

\* The props of a BusinessMessageProvider component (children left out).
ProviderProps ==
  [locale : {"en", "vi"}, customMessages : Opt(MessageMaps), fallbackLocale : Opt({"en", "vi"})]

\* The contextValue a BusinessMessageProvider component passes down: locale and
\* three functions closing over provider, the message provider it constructs.
BusinessMessageProvider(props) ==
  LET config == [locale |-> Some(props.locale),
                 fallbackLocale |-> Some(Nullish(props.fallbackLocale, "en")),
                 customMessages |->
                   IF props.customMessages # None
                   THEN Some((props.locale :> props.customMessages))
                   ELSE None]
  IN [locale |-> props.locale,
      provider |-> [locale |-> Nullish(config.locale, "en"),
                    fallbackLocale |-> Nullish(config.fallbackLocale, "en"),
                    customMessages |-> ConstructorMessages(config)]]

\* useBusinessMessage with the context of a default provider where none
\* encloses the caller (mutant for C23).
useBusinessMessageDefaulting(providers) ==
  LET context == IF providers = <<>>
                 THEN Some(BusinessMessageProvider(
                        [locale |-> "en", customMessages |-> None, fallbackLocale |-> None]))
                 ELSE Some(BusinessMessageProvider(providers[Len(providers)]))
  IN [threw |-> FALSE, value |-> context[1]]

\* useBusinessMessage() called under providers, the props of the enclosing
\* BusinessMessageProvider components from the outermost to the nearest.
\* useContext gives the value of the nearest one, or the default null.
useBusinessMessage(providers) ==
  LET context == IF providers = <<>>
                 THEN None
                 ELSE Some(BusinessMessageProvider(providers[Len(providers)]))
  IN IF context = None
     THEN [threw |-> TRUE,
           value |-> "useBusinessMessage must be used within a BusinessMessageProvider."]
     ELSE [threw |-> FALSE, value |-> context[1]]

InitReact ==
  /\ pc = "call"
  /\ op = "useBusinessMessage"
  /\ args \in [providers : UNION {[1..n -> ProviderProps] : n \in 0..MaxProviders}]
  /\ out = None
  /\ events = <<>>
  /\ json = <<>>
  /\ locale = "en"
  /\ fallbackLocale = "en"
  /\ customMessages = <<>>
  /\ history = <<>>
  /\ callerMaps = <<>>
  /\ stored = <<>>

UseBusinessMessageCall ==
  /\ pc = "call" /\ op = "useBusinessMessage"
  /\ Return(useBusinessMessage(args.providers))

NextReact == UseBusinessMessageCall

SpecReact == InitReact /\ [][NextReact]_vars

\* C23: called with no enclosing BusinessMessageProvider, useBusinessMessage
\* throws an error and returns no context; called inside one, it does not throw
\* and returns the context value of the nearest enclosing provider.
C23_ThrowsOutsideProvider ==
  (pc = "done" /\ op = "useBusinessMessage") =>
    IF args.providers = <<>>
    THEN out[1].threw
    ELSE /\ ~out[1].threw
         /\ out[1].value = BusinessMessageProvider(args.providers[Len(args.providers)])

\* C23 witness: useBusinessMessage was called with no enclosing provider and threw.
C23_Witness ==
  /\ pc = "done" /\ op = "useBusinessMessage"
  /\ args.providers = <<>>
  /\ out[1].threw

====
